---- MODULE Spec2Model ----
(***************************************************************************)
(* A state-machine model of the Remote coordinator of payshares-lib        *)
(* (src/src/remote.js): the online/offline state machine driven by the     *)
(* per-server connect/disconnect handlers, the ledger tracker, the         *)
(* transaction de-duplication cache and fan-out, and the account sequence  *)
(* cache with its single-flight refresh, server selection and the          *)
(* submission of Requests, the transaction_all subscription count and the  *)
(* inbound message handler.                                                *)
(*                                                                         *)
(* JavaScript's undefined is modelled as the empty sequence <<>> and a     *)
(* defined value v as <<v>>.  Every handler runs to completion, so each    *)
(* handler is one action.                                                  *)
(***************************************************************************)
EXTENDS Integers, Sequences, FiniteSets, TLC

VARIABLES
  servers,               \* this._servers: sequence of Server records
  connection_count,      \* this._connection_count
  state,                 \* this.state
  connected,             \* this._connected
  online_state,          \* this._online_state
  primary_server,        \* this._primary_server: <<>> or <<server id>>
  emitted,               \* events emitted on the Remote by the last handler
  ledger_current_index,  \* this._ledger_current_index: <<>> or <<n>>
  ledger_hash,           \* this._ledger_hash: <<>> or <<hash>>
  ledger_time,           \* this._ledger_time: <<>> or <<time>>
  stand_alone,           \* this._stand_alone: <<>> or <<bool>>
  testnet,               \* this._testnet: <<>> or <<bool>>
  fed,                   \* history: the ledger inputs handled, in order
  accepted,              \* history: the ledger indices a ledger_closed event was emitted for
  received_tx,           \* this._received_tx: the cached hashes, least recently used first
  accountsReg,           \* the keys of this._accounts (registered Account objects)
  booksReg,              \* the keys of this._books (registered OrderBook objects)
  notified,              \* the notify calls made by the last transaction handler
  seen,                  \* history: per hash, its earlier deliveries
  lastTx,                \* history: <<>> or <<the transaction message handled last>>
  lastMarked,            \* history: that message's hash had been delivered validated before
  txFresh,               \* history: number of distinct validated hashes fed in order
  txAgain,               \* history: number of re-deliveries after them
  accounts,              \* this.accounts: account -> [seq, caching_seq_request]
  requests,              \* the Requests made by accountSeqCache, by id
  account_root,          \* this.ledgers.current.account_root: account -> cached Sequence
  called,                \* the callbacks invoked by the last operation
  lastOp,                \* history: the last operation, its arguments and its result
  pending,               \* history: per account, the refresh callers and look-ups since the last completion
  advRun,                \* history: the current run of consecutive ADVANCE calls
  submitted,             \* the Requests passed to Remote.request, with the history of each
  connect_listeners,     \* the Requests bound to the once('connect') listeners, in order
  lastCall,              \* the call of the selection and submission API the last step made, and its result
  transaction_subs,      \* this._transaction_subs
  lastMsg,               \* history: the payload _handleMessage handled last, and how it ended
  cur_path_find,         \* this._cur_path_find: the PathFind installed (by number), or null
  path_finds,            \* the number of PathFind objects made so far
  path_calls,            \* the calls made on the PathFind objects, in order
  next_server,           \* connect(): the index the pending nextServer timer will visit, 0 for no timer
  visited,               \* history: the servers the last connect() called connect() on, in order
  store_hook,            \* the once('connect') listener bound to getPendingTransactions is registered
  store_queries,         \* history: the calls of storage.getPendingTransactions so far
  store_waiting,         \* the calls of storage.getPendingTransactions that have not called back
  resubmitted,           \* history: the stored transactions submitted again, in order
  lastBatch,             \* history: what the storage called back with last, and how the callback ended
  handed                 \* history: per account, the numbers getAccountSequence returned for ADVANCE

connVars == <<servers, connection_count, state, connected, online_state, primary_server>>

ledgerVars == <<ledger_current_index, ledger_hash, ledger_time, stand_alone, testnet, fed, accepted>>

txVars == <<received_tx, accountsReg, booksReg, notified, seen, lastTx, lastMarked, txFresh, txAgain>>

seqVars == <<accounts, requests, account_root, called, lastOp, pending, advRun>>

reqVars == <<submitted, connect_listeners, lastCall>>

subVars == <<transaction_subs>>

pathVars == <<cur_path_find, path_finds, path_calls>>

msgVars == <<lastMsg, pathVars>>

dialVars == <<next_server, visited>>

storeVars == <<store_hook, store_queries, store_waiting, resubmitted, lastBatch>>

handVars == <<handed>>

vars == <<connVars, emitted, ledgerVars, txVars, seqVars, reqVars, subVars, msgVars, dialVars,
          storeVars, handVars>>

\* ------------------------------------------------------------------ bounds

MaxServers == 3

MaxCount == 3

\* The ledger indices the messages of the model carry (and 0, which is falsy).
MinLedgerIndex == 5

MaxLedgerIndex == 8

\* The number of ledger inputs one behaviour handles.
MaxFed == 4

\* The entries of one batch of stored transactions.
MaxBatch == 3

\* The numbers one behaviour hands out for one account.
MaxHanded == 3

\* The PathFind objects one behaviour makes, and the calls made on them.
MaxPathFinds == 3

MaxPathCalls == 9

\* The transaction hashes of the model are 1..NumHashes.
NumHashes == 2

\* The distinct validated hashes fed in order, and the re-deliveries after them.
NumFill == 150

MaxRedeliver == 1

\* The Requests accountSeqCache creates in one behaviour, and the callbacks
\* attached to one Request.
MaxRequests == 2

MaxListeners == 2

\* ADVANCE and REWIND are called while the stored sequence is within these.
MinSeq == 9

MaxSeq == 13

\* The scores and the fee quotes of the servers are within 0..MaxLoad.
MaxLoad == 1

\* The Requests passed to Remote.request in one behaviour.
MaxSubmitted == 2

\* The 'transaction_all' listeners registered at one time.
MaxSubs == 2

\* ------------------------------------------------------- program constants

\* LRU({ max: 100 })
ReceivedTxMax == 100

\* ------------------------------------------------------------- JS helpers

Undefined == <<>>

Some(v) == <<v>>

IsDef(x) == x # <<>>

Val(x) == x[1]

\* An emitted event: its name and its argument ("" when it has none).
Ev(name, arg) == [name |-> name, arg |-> arg]

\* ------------------------------------------------------------ construction

\* function Remote(opts): the fields as the constructor leaves them.
InitConn ==
  /\ servers = <<>>
  /\ connection_count = 0
  /\ state = "offline"
  /\ connected = FALSE
  /\ online_state = "undefined"
  /\ primary_server = Undefined

InitLedger ==
  /\ ledger_current_index = Undefined
  /\ ledger_hash = Undefined
  /\ ledger_time = Undefined
  /\ stand_alone = Undefined
  /\ testnet = Undefined
  /\ fed = <<>>
  /\ accepted = <<>>

InitTx ==
  /\ received_tx = <<>>
  /\ accountsReg = {}
  /\ booksReg = {}
  /\ notified = <<>>
  /\ seen = <<>>
  /\ lastTx = Undefined
  /\ lastMarked = FALSE
  /\ txFresh = 0
  /\ txAgain = 0

NoRun == [account |-> "", start |-> <<>>, rets |-> <<>>]

InitSeq ==
  /\ accounts = <<>>
  /\ requests = <<>>
  /\ account_root = <<>>
  /\ called = <<>>
  /\ lastOp = [op |-> "none"]
  /\ pending = [a \in {"a1", "a2"} |-> [callers |-> <<>>, lookups |-> 0]]
  /\ advRun = NoRun

InitReq ==
  /\ submitted = <<>>
  /\ connect_listeners = <<>>
  /\ lastCall = [op |-> "none"]

InitSubs == transaction_subs = 0

InitPath ==
  /\ cur_path_find = Undefined
  /\ path_finds = 0
  /\ path_calls = <<>>

InitMsg == lastMsg = Undefined /\ InitPath

InitDial ==
  /\ next_server = 0
  /\ visited = <<>>

\* new Remote(opts): opts.storage decides whether the listener bound to
\* getPendingTransactions is registered.
InitStore(storage) ==
  /\ store_hook = storage
  /\ store_queries = 0
  /\ store_waiting = 0
  /\ resubmitted = <<>>
  /\ lastBatch = Undefined

\* new Remote(opts) with no server in opts.
InitRemote ==
  /\ InitConn
  /\ InitDial
  /\ InitLedger
  /\ InitTx
  /\ InitSeq
  /\ InitReq
  /\ InitSubs
  /\ InitMsg
  /\ handed = <<>>
  /\ emitted = <<>>

\* A Remote made without opts.storage.
Init == InitRemote /\ InitStore(FALSE)

\* ------------------------------------------------- connection state machine

\* Remote.prototype._setState with the guard dropped (a mutant).
SetState_NoGuard(st) ==
  [state |-> st,
   online_state |-> IF st = "online" THEN "open" ELSE "closed",
   connected |-> (st = "online"),
   emits |-> IF st = "online"
             THEN <<Ev("state", st), Ev("connect", ""), Ev("connected", "")>>
             ELSE <<Ev("state", st), Ev("disconnect", ""), Ev("disconnected", "")>>]

\* Remote.prototype._setState(state): the fields it leaves and the events it emits.
SetState(st) ==
  IF state # st
  THEN CASE st = "online" ->
              [state |-> st, online_state |-> "open", connected |-> TRUE,
               emits |-> <<Ev("state", st), Ev("connect", ""), Ev("connected", "")>>]
         [] st = "offline" ->
              [state |-> st, online_state |-> "closed", connected |-> FALSE,
               emits |-> <<Ev("state", st), Ev("disconnect", ""), Ev("disconnected", "")>>]
         [] OTHER ->
              [state |-> st, online_state |-> online_state, connected |-> connected,
               emits |-> <<Ev("state", st)>>]
  ELSE [state |-> state, online_state |-> online_state, connected |-> connected,
        emits |-> <<>>]

\* A handler that does not call _setState.
KeepState ==
  [state |-> state, online_state |-> online_state, connected |-> connected,
   emits |-> <<>>]

\* The position in the array srvs of the server with this id.
IndexOf(srvs, id) == CHOOSE k \in 1..Len(srvs) : srvs[k].id = id

\* setPrimaryServer without clearing the flag of the previous primary (a mutant).
SetPrimaryServer_NoClear(srvs, id) ==
  [servers |-> [srvs EXCEPT ![IndexOf(srvs, id)].primary = TRUE],
   primary_server |-> Some(id)]

\* Remote.prototype.setPrimaryServer(server), on the array srvs.
SetPrimaryServer(srvs, id) ==
  LET cleared == IF IsDef(primary_server)
                 THEN [srvs EXCEPT ![IndexOf(srvs, Val(primary_server))].primary = FALSE]
                 ELSE srvs
  IN [servers |-> [cleared EXCEPT ![IndexOf(srvs, id)].primary = TRUE],
      primary_server |-> Some(id)]

\* The arrays Array.prototype.sort(sortByScore) can leave: the servers in an
\* order of ascending _score + _fee; the order of servers that compare equal
\* is the engine's choice.
SortedByScore(srvs) ==
  LET n == Len(srvs)
      perms == {f \in [1..n -> 1..n] : \A i, j \in 1..n : i # j => f[i] # f[j]}
      arrays == {[i \in 1..n |-> srvs[f[i]]] : f \in perms}
  IN {a \in arrays :
        \A i \in 1..n, j \in 1..n :
          i < j => a[i].score + a[i].fee <= a[j].score + a[j].fee}

\* The while loop of getServer on the sorted array a: the first connected
\* server; reading _connected past the end of the array throws a TypeError.
FirstConnected(a) ==
  IF \E k \in 1..Len(a) : a[k].connected
  THEN [ret |-> Some(a[CHOOSE k \in 1..Len(a) :
                         a[k].connected /\ \A j \in 1..(k - 1) : ~a[j].connected].id),
        threw |-> ""]
  ELSE [ret |-> Undefined, threw |-> "TypeError"]

\* getServer returning the first server of the sorted array (a mutant).
getServer_First(srvs, prim) ==
  IF IsDef(prim) /\ srvs[IndexOf(srvs, Val(prim))].connected
  THEN {[servers |-> srvs, ret |-> prim, threw |-> ""]}
  ELSE {[servers |-> a,
         ret |-> IF Len(a) > 0 THEN Some(a[1].id) ELSE Undefined,
         threw |-> IF Len(a) > 0 THEN "" ELSE "TypeError"] : a \in SortedByScore(srvs)}

\* getServer without the test for a primary server (a mutant).
getServer_NoPrimary(srvs, prim) ==
  {[servers |-> a, ret |-> FirstConnected(a).ret, threw |-> FirstConnected(a).threw]
     : a \in SortedByScore(srvs)}

\* Remote.prototype.getServer(), with the array srvs and the primary server
\* prim: the outcomes it can have, each the array it leaves, the server it
\* returns and the exception it throws ("" for none).
getServer(srvs, prim) ==
  IF IsDef(prim) /\ srvs[IndexOf(srvs, Val(prim))].connected
  THEN {[servers |-> srvs, ret |-> prim, threw |-> ""]}
  ELSE {[servers |-> a, ret |-> FirstConnected(a).ret, threw |-> FirstConnected(a).threw]
          : a \in SortedByScore(srvs)}

\* request.server: not set, null (id 0), or the server with an id.
NoPin == [set |-> FALSE, id |-> 0]

NullPin == [set |-> TRUE, id |-> 0]

ServerPin(k) == [set |-> TRUE, id |-> k]

Pins == {NoPin, NullPin, ServerPin(1)}

\* A Request as it is passed to Remote.request the first time, with the
\* Remote as it is then.  dispatched, live, order, errors and onlines are the
\* history of the Request: the servers whose _request it was given to,
\* whether each was connected then, the rank of each of these dispatches
\* among all dispatches of the Remote, the 'error' events emitted on it, and
\* the transitions to online since (counted up to 2).
NewSubmitted(command, pin) ==
  [command |-> command, server |-> pin,
   offlineAtSubmit |-> ~connected, hadServers |-> Len(servers) > 0,
   dispatched |-> <<>>, live |-> <<>>, order |-> <<>>, errors |-> <<>>, onlines |-> 0]

\* The number of dispatches so far: server._request calls for the Requests subs.
RECURSIVE Dispatches(_)
Dispatches(subs) ==
  IF subs = <<>> THEN 0 ELSE Len(Head(subs).dispatched) + Dispatches(Tail(subs))

\* Remote.request putting the waiting Request first among the listeners (a
\* mutant).
request_Prepend(R, r, conn, prim) ==
  IF Len(R.servers) = 0
  THEN {[R EXCEPT !.submitted[r].errors = Append(@, "No servers available")]}
  ELSE IF ~conn
  THEN {[R EXCEPT !.connect_listeners = <<r>> \o @]}
  ELSE IF R.submitted[r].server = NullPin
  THEN {[R EXCEPT !.submitted[r].errors = Append(@, "Server does not exist")]}
  ELSE IF R.submitted[r].server.set
  THEN {[R EXCEPT !.submitted[r].dispatched = Append(@, R.submitted[r].server.id),
                  !.submitted[r].order = Append(@, Dispatches(R.submitted) + 1)]}
  ELSE {IF g.threw # ""
        THEN [R EXCEPT !.servers = g.servers, !.threw = g.threw]
        ELSE [R EXCEPT !.servers = g.servers,
                       !.submitted[r].dispatched = Append(@, Val(g.ret)),
                       !.submitted[r].order = Append(@, Dispatches(R.submitted) + 1)]
          : g \in getServer(R.servers, prim)}

\* Remote.request waiting with on('connect') instead of once (a mutant): the
\* Request is sent, and waits again.
request_On(R, r, conn, prim) ==
  IF Len(R.servers) = 0
  THEN {[R EXCEPT !.submitted[r].errors = Append(@, "No servers available")]}
  ELSE IF ~conn
  THEN {[R EXCEPT !.connect_listeners = Append(@, r)]}
  ELSE IF R.submitted[r].server = NullPin
  THEN {[R EXCEPT !.submitted[r].errors = Append(@, "Server does not exist")]}
  ELSE IF R.submitted[r].server.set
  THEN {[R EXCEPT !.submitted[r].dispatched = Append(@, R.submitted[r].server.id),
                  !.submitted[r].order = Append(@, Dispatches(R.submitted) + 1),
                  !.connect_listeners =
                     IF R.submitted[r].offlineAtSubmit /\ Len(R.submitted[r].dispatched) < 2
                     THEN Append(@, r) ELSE @]}
  ELSE {IF g.threw # ""
        THEN [R EXCEPT !.servers = g.servers, !.threw = g.threw]
        ELSE [R EXCEPT !.servers = g.servers,
                       !.submitted[r].dispatched = Append(@, Val(g.ret)),
                       !.submitted[r].order = Append(@, Dispatches(R.submitted) + 1),
                       !.connect_listeners =
                          IF R.submitted[r].offlineAtSubmit /\ Len(R.submitted[r].dispatched) < 2
                          THEN Append(@, r) ELSE @]
          : g \in getServer(R.servers, prim)}

\* Remote.request without the test for an empty pool (a mutant).
request_NoPoolTest(R, r, conn, prim) ==
  IF ~conn
  THEN {[R EXCEPT !.connect_listeners = Append(@, r)]}
  ELSE IF R.submitted[r].server = NullPin
  THEN {[R EXCEPT !.submitted[r].errors = Append(@, "Server does not exist")]}
  ELSE IF R.submitted[r].server.set
  THEN {[R EXCEPT !.submitted[r].dispatched = Append(@, R.submitted[r].server.id),
                  !.submitted[r].order = Append(@, Dispatches(R.submitted) + 1)]}
  ELSE {IF g.threw # ""
        THEN [R EXCEPT !.servers = g.servers, !.threw = g.threw]
        ELSE [R EXCEPT !.servers = g.servers,
                       !.submitted[r].dispatched = Append(@, Val(g.ret)),
                       !.submitted[r].order = Append(@, Dispatches(R.submitted) + 1)]
          : g \in getServer(R.servers, prim)}

\* Remote.request without the test for a null server (a mutant).
request_NoNullTest(R, r, conn, prim) ==
  IF Len(R.servers) = 0
  THEN {[R EXCEPT !.submitted[r].errors = Append(@, "No servers available")]}
  ELSE IF ~conn
  THEN {[R EXCEPT !.connect_listeners = Append(@, r)]}
  ELSE IF R.submitted[r].server.set /\ R.submitted[r].server # NullPin
  THEN {[R EXCEPT !.submitted[r].dispatched = Append(@, R.submitted[r].server.id),
                  !.submitted[r].order = Append(@, Dispatches(R.submitted) + 1)]}
  ELSE {IF g.threw # ""
        THEN [R EXCEPT !.servers = g.servers, !.threw = g.threw]
        ELSE [R EXCEPT !.servers = g.servers,
                       !.submitted[r].dispatched = Append(@, Val(g.ret)),
                       !.submitted[r].order = Append(@, Dispatches(R.submitted) + 1)]
          : g \in getServer(R.servers, prim)}

\* Remote.prototype.request(request), for a Request object r, on the part R of
\* the Remote it works on, with this._connected = conn and the primary server
\* prim: the outcomes it can have.
request(R, r, conn, prim) ==
  IF Len(R.servers) = 0
  THEN {[R EXCEPT !.submitted[r].errors = Append(@, "No servers available")]}
  ELSE IF ~conn
  THEN {[R EXCEPT !.connect_listeners = Append(@, r)]}
  ELSE IF R.submitted[r].server = NullPin
  THEN {[R EXCEPT !.submitted[r].errors = Append(@, "Server does not exist")]}
  ELSE IF R.submitted[r].server.set
  THEN {[R EXCEPT !.submitted[r].dispatched = Append(@, R.submitted[r].server.id),
                  !.submitted[r].live =
                     Append(@, R.servers[IndexOf(R.servers, R.submitted[r].server.id)].connected),
                  !.submitted[r].order = Append(@, Dispatches(R.submitted) + 1)]}
  ELSE {IF g.threw # ""
        THEN [R EXCEPT !.servers = g.servers, !.threw = g.threw]
        ELSE [R EXCEPT !.servers = g.servers,
                       !.submitted[r].dispatched = Append(@, Val(g.ret)),
                       !.submitted[r].live =
                          Append(@, g.servers[IndexOf(g.servers, Val(g.ret))].connected),
                       !.submitted[r].order = Append(@, Dispatches(R.submitted) + 1)]
          : g \in getServer(R.servers, prim)}

\* emit('connect') running the once('connect') listeners in the order queue:
\* each is removed, then calls request with its Request; an exception ends
\* the emit and leaves the later listeners registered.
RECURSIVE RunConnectListeners(_, _, _)
RunConnectListeners(R, queue, prim) ==
  IF queue = <<>>
  THEN {R}
  ELSE UNION {IF o.threw # "" THEN {o} ELSE RunConnectListeners(o, Tail(queue), prim)
                : o \in request([R EXCEPT !.connect_listeners = Tail(@)],
                                Head(queue), TRUE, prim)}

\* The part of the Remote that request works on, with the array srvs; every
\* Request submitted so far has seen one more transition to online if online.
RequestPart(srvs, online) ==
  [servers |-> srvs,
   submitted |-> IF online
                 THEN [k \in 1..Len(submitted) |->
                         [submitted[k] EXCEPT !.onlines = IF @ < 2 THEN @ + 1 ELSE @]]
                 ELSE submitted,
   connect_listeners |-> connect_listeners,
   threw |-> ""]

\* What _setState(st) and the listeners of the events it emits leave.
AfterSetState(srvs, prim, st) ==
  IF \E k \in 1..Len(st.emits) : st.emits[k].name = "connect"
  THEN RunConnectListeners(RequestPart(srvs, TRUE), connect_listeners, prim)
  ELSE {RequestPart(srvs, FALSE)}

\* serverConnect with the state change tested against the wrong count (a mutant).
serverConnect_Mut(i, srvs) ==
  LET cnt == connection_count + 1
      prim == IF srvs[i].optsPrimary
              THEN SetPrimaryServer(srvs, srvs[i].id)
              ELSE [servers |-> srvs, primary_server |-> primary_server]
      st == IF cnt = 2 THEN SetState("online") ELSE KeepState
  IN /\ connection_count' = cnt
     /\ primary_server' = prim.primary_server
     /\ state' = st.state
     /\ online_state' = st.online_state
     /\ connected' = st.connected
     /\ \E o \in AfterSetState(prim.servers, prim.primary_server, st) :
          /\ servers' = o.servers
          /\ submitted' = o.submitted
          /\ connect_listeners' = o.connect_listeners
          /\ emitted' = IF o.threw # ""
                        THEN SubSeq(st.emits, 1, 2)
                        ELSE st.emits \o (IF cnt = Len(srvs) THEN <<Ev("ready", "")>> ELSE <<>>)

\* addServer's serverConnect handler, run for the server at position i of srvs.
serverConnect(i, srvs) ==
  LET cnt == connection_count + 1
      prim == IF srvs[i].optsPrimary
              THEN SetPrimaryServer(srvs, srvs[i].id)
              ELSE [servers |-> srvs, primary_server |-> primary_server]
      st == IF cnt = 1 THEN SetState("online") ELSE KeepState
  IN /\ connection_count' = cnt
     /\ primary_server' = prim.primary_server
     /\ state' = st.state
     /\ online_state' = st.online_state
     /\ connected' = st.connected
     /\ \E o \in AfterSetState(prim.servers, prim.primary_server, st) :
          /\ servers' = o.servers
          /\ submitted' = o.submitted
          /\ connect_listeners' = o.connect_listeners
          /\ emitted' = IF o.threw # ""
                        THEN SubSeq(st.emits, 1, 2)
                        ELSE st.emits \o (IF cnt = Len(srvs) THEN <<Ev("ready", "")>> ELSE <<>>)

\* serverDisconnect without the decrement (a mutant).
serverDisconnect_Mut(i, srvs) ==
  LET cnt == connection_count
      st == IF cnt = 0 THEN SetState("offline") ELSE KeepState
  IN /\ connection_count' = cnt
     /\ servers' = srvs
     /\ primary_server' = primary_server
     /\ state' = st.state
     /\ online_state' = st.online_state
     /\ connected' = st.connected
     /\ emitted' = st.emits

\* addServer's serverDisconnect handler, run for the server at position i of srvs.
serverDisconnect(i, srvs) ==
  LET cnt == connection_count - 1
      st == IF cnt = 0 THEN SetState("offline") ELSE KeepState
  IN /\ connection_count' = cnt
     /\ servers' = srvs
     /\ primary_server' = primary_server
     /\ state' = st.state
     /\ online_state' = st.online_state
     /\ connected' = st.connected
     /\ emitted' = st.emits

\* Remote.prototype.addServer(opts): a new Server, not yet connected, is pushed.
AddServer(optsPrimary) ==
  /\ Len(servers) < MaxServers
  /\ servers' = Append(servers, [id |-> Len(servers) + 1, connected |-> FALSE,
                                 primary |-> FALSE, optsPrimary |-> optsPrimary,
                                 score |-> 0, fee |-> 0])
  /\ emitted' = <<>>
  /\ UNCHANGED <<connection_count, state, connected, online_state, primary_server>>
  /\ lastCall' = [op |-> "none"]
  /\ UNCHANGED <<submitted, connect_listeners>>
  /\ UNCHANGED <<ledgerVars, txVars, seqVars, subVars, msgVars, dialVars, storeVars, handVars>>

\* The constructor's once('connect', getPendingTransactions), the first
\* listener of 'connect': when the step emits 'connect' and the listener is
\* still registered, it is removed and storage.getPendingTransactions(callback)
\* is called; the storage calls back later.
onceConnect ==
  IF store_hook /\ \E k \in 1..Len(emitted') : emitted'[k].name = "connect"
  THEN /\ store_hook' = FALSE
       /\ store_queries' = store_queries + 1
       /\ store_waiting' = store_waiting + 1
       /\ UNCHANGED <<resubmitted, lastBatch>>
  ELSE UNCHANGED storeVars

\* A Server comes online: it sets its connected flag and emits 'connect'.
ServerOnline(i) ==
  /\ ~servers[i].connected
  /\ serverConnect(i, [servers EXCEPT ![i].connected = TRUE])
  /\ onceConnect
  /\ lastCall' = [op |-> "none"]
  /\ UNCHANGED <<ledgerVars, txVars, seqVars, subVars, msgVars, dialVars, handVars>>

\* A Server goes offline: it clears its connected flag and emits 'disconnect'.
ServerOffline(i) ==
  /\ servers[i].connected
  /\ serverDisconnect(i, [servers EXCEPT ![i].connected = FALSE])
  /\ lastCall' = [op |-> "none"]
  /\ UNCHANGED <<submitted, connect_listeners>>
  /\ UNCHANGED <<ledgerVars, txVars, seqVars, subVars, msgVars, dialVars, storeVars, handVars>>

\* A 'connect' event delivered to the handler, whatever the server's own state.
EventConnect(i) ==
  /\ connection_count < MaxCount
  /\ serverConnect(i, servers)
  /\ onceConnect
  /\ lastCall' = [op |-> "none"]
  /\ UNCHANGED <<ledgerVars, txVars, seqVars, subVars, msgVars, dialVars, handVars>>

\* A 'disconnect' event delivered to the handler, whatever the server's own state.
EventDisconnect(i) ==
  /\ connection_count > -MaxCount
  /\ serverDisconnect(i, servers)
  /\ lastCall' = [op |-> "none"]
  /\ UNCHANGED <<submitted, connect_listeners>>
  /\ UNCHANGED <<ledgerVars, txVars, seqVars, subVars, msgVars, dialVars, storeVars, handVars>>

\* The Remote with servers that report each change of their connection once.
Next ==
  \/ \E p \in BOOLEAN : AddServer(p)
  \/ \E i \in 1..Len(servers) : ServerOnline(i)
  \/ \E i \in 1..Len(servers) : ServerOffline(i)

Spec == Init /\ [][Next]_vars

\* The Remote under every sequence of connect and disconnect events.
NextEvents ==
  \/ \E p \in BOOLEAN : AddServer(p)
  \/ \E i \in 1..Len(servers) : EventConnect(i)
  \/ \E i \in 1..Len(servers) : EventDisconnect(i)

SpecEvents == Init /\ [][NextEvents]_vars

\* this._set_state('offline') in disconnect(): remote.js defines _setState and
\* no _set_state, so the call of the undefined property throws a TypeError.
set_state(st) == [threw |-> "TypeError"]

\* Remote.prototype.disconnect(), with no callback; a server told to
\* disconnect reports 'disconnect' later.
Disconnect ==
  /\ lastCall' = IF Len(servers) = 0
                 THEN [op |-> "disconnect", called |-> <<>>, wasOnline |-> state = "online",
                       threw |-> "No servers available, not disconnecting"]
                 ELSE [op |-> "disconnect",
                       called |-> [k \in 1..Len(servers) |-> servers[k].id],
                       wasOnline |-> state = "online",
                       threw |-> set_state("offline").threw]
  /\ emitted' = <<>>
  /\ UNCHANGED <<connVars, submitted, connect_listeners>>
  /\ UNCHANGED <<ledgerVars, txVars, seqVars, subVars, msgVars, dialVars, storeVars, handVars>>

\* disconnect() called while the servers connect and disconnect.
NextDisconnect ==
  \/ \E p \in BOOLEAN : AddServer(p)
  \/ \E i \in 1..Len(servers) : ServerOnline(i)
  \/ \E i \in 1..Len(servers) : ServerOffline(i)
  \/ Disconnect

SpecDisconnect == Init /\ [][NextDisconnect]_vars

\* ------------------------------------------------ pending transactions

\* The entries a storage can hold: the object of a stored transaction, a
\* string, and null.
StoredTx(k) == [typeOf |-> "object", null |-> FALSE, id |-> k]

StoredString == [typeOf |-> "string", null |-> FALSE, id |-> 0]

StoredNull == [typeOf |-> "object", null |-> TRUE, id |-> 0]

StoredEntries == {StoredTx(1), StoredTx(2), StoredString, StoredNull}

RECURSIVE BatchesOf(_)
BatchesOf(n) ==
  IF n = 0
  THEN {<<>>}
  ELSE LET shorter == BatchesOf(n - 1)
       IN shorter \cup {Append(b, e) : b \in {x \in shorter : Len(x) = n - 1}, e \in StoredEntries}

Batches == BatchesOf(MaxBatch)

\* transactions.forEach(resubmitTransaction), from the entry at place i on,
\* done being the transactions submitted so far: an entry that is no object
\* is passed over, reading tx.tx_json of null throws a TypeError, which ends
\* the forEach, and an object is made a Transaction and submitted.
RECURSIVE resubmitEach(_, _, _)
resubmitEach(batch, i, done) ==
  IF i > Len(batch)
  THEN [resubmitted |-> done, threw |-> ""]
  ELSE IF batch[i].typeOf # "object"
  THEN resubmitEach(batch, i + 1, done)
  ELSE IF batch[i].null
  THEN [resubmitted |-> done, threw |-> "TypeError"]
  ELSE resubmitEach(batch, i + 1, Append(done, batch[i].id))

\* The callback getPendingTransactions passes to the storage, called with
\* (err, transactions), transactions an array.
pendingTransactions(err, batch) ==
  IF ~err
  THEN resubmitEach(batch, 1, <<>>)
  ELSE [resubmitted |-> <<>>, threw |-> ""]

\* The storage calls back.
StorageCallback(err, batch) ==
  /\ store_waiting > 0
  /\ store_waiting' = store_waiting - 1
  /\ resubmitted' = resubmitted \o pendingTransactions(err, batch).resubmitted
  /\ lastBatch' = Some([err |-> err, batch |-> batch,
                        threw |-> pendingTransactions(err, batch).threw])
  /\ emitted' = <<>>
  /\ UNCHANGED <<store_hook, store_queries>>
  /\ UNCHANGED <<connVars, ledgerVars, txVars, seqVars, reqVars, subVars, msgVars, dialVars, handVars>>

\* A Remote made with opts.storage, whose servers connect and disconnect
\* while the storage answers.
NextStore ==
  \/ AddServer(FALSE)
  \/ \E i \in 1..Len(servers) : ServerOnline(i)
  \/ \E i \in 1..Len(servers) : ServerOffline(i)
  \/ \E err \in BOOLEAN, batch \in Batches : StorageCallback(err, batch)

\* The Remote constructed with opts.storage.
InitStored == InitRemote /\ InitStore(TRUE)

SpecStore == InitStored /\ [][NextStore]_vars

\* --------------------------------------- server selection and submission

\* A Server updates its score and its fee quote.
ServerLoad(i, sc, fe) ==
  /\ servers' = [servers EXCEPT ![i].score = sc, ![i].fee = fe]
  /\ lastCall' = [op |-> "load"]
  /\ emitted' = <<>>
  /\ UNCHANGED <<connection_count, state, connected, online_state, primary_server>>
  /\ UNCHANGED <<submitted, connect_listeners>>
  /\ UNCHANGED <<ledgerVars, txVars, seqVars, subVars, msgVars, dialVars, storeVars, handVars>>

\* A caller selects a server: Remote.prototype.getServer().
GetServer ==
  /\ \E g \in getServer(servers, primary_server) :
       /\ servers' = g.servers
       /\ lastCall' = [op |-> "getServer", ret |-> g.ret, threw |-> g.threw]
  /\ emitted' = <<>>
  /\ UNCHANGED <<connection_count, state, connected, online_state, primary_server>>
  /\ UNCHANGED <<submitted, connect_listeners>>
  /\ UNCHANGED <<ledgerVars, txVars, seqVars, subVars, msgVars, dialVars, storeVars, handVars>>

FeeQueries == {"feeTx", "feeTxUnit", "reserve"}

\* What feeTx, feeTxUnit and reserve do with an outcome g of _getServer():
\* the exception they end with, "" when they go on to ask the server.
feeQuery(g) ==
  IF g.threw # ""
  THEN g.threw
  ELSE IF ~IsDef(g.ret) THEN "No connected servers" ELSE ""

\* Remote.prototype.feeTx(units), feeTxUnit() and reserve(owner_count).
FeeQuery(kind) ==
  /\ \E g \in getServer(servers, primary_server) :
       /\ servers' = g.servers
       /\ lastCall' = [op |-> kind, ret |-> g.ret, threw |-> feeQuery(g)]
  /\ emitted' = <<>>
  /\ UNCHANGED <<connection_count, state, connected, online_state, primary_server>>
  /\ UNCHANGED <<submitted, connect_listeners>>
  /\ UNCHANGED <<ledgerVars, txVars, seqVars, subVars, msgVars, dialVars, storeVars, handVars>>

\* Server selection under servers that connect, disconnect and change their
\* load in any order.
NextSelect ==
  \/ \E p \in BOOLEAN : AddServer(p)
  \/ \E i \in 1..Len(servers) : ServerOnline(i)
  \/ \E i \in 1..Len(servers) : ServerOffline(i)
  \/ \E i \in 1..Len(servers), sc \in 0..MaxLoad, fe \in 0..MaxLoad : ServerLoad(i, sc, fe)
  \/ GetServer

SpecSelect == Init /\ [][NextSelect]_vars

\* The fee and reserve queries under servers that connect and disconnect in
\* any order.
NextFee ==
  \/ \E p \in BOOLEAN : AddServer(p)
  \/ \E i \in 1..Len(servers) : ServerOnline(i)
  \/ \E i \in 1..Len(servers) : ServerOffline(i)
  \/ GetServer
  \/ \E kind \in FeeQueries : FeeQuery(kind)

SpecFee == Init /\ [][NextFee]_vars

\* A new Request is passed to Remote.request: Request.prototype.request
\* calling this.remote.request(this).
Submit(command, pin) ==
  /\ Len(submitted) < MaxSubmitted
  /\ pin.id <= Len(servers)
  /\ \E o \in request([servers |-> servers,
                       submitted |-> Append(submitted, NewSubmitted(command, pin)),
                       connect_listeners |-> connect_listeners,
                       threw |-> ""],
                      Len(submitted) + 1, connected, primary_server) :
       /\ servers' = o.servers
       /\ submitted' = o.submitted
       /\ connect_listeners' = o.connect_listeners
       /\ lastCall' = [op |-> "request", request |-> Len(submitted) + 1,
                       threw |-> o.threw]
  /\ emitted' = <<>>
  /\ UNCHANGED <<connection_count, state, connected, online_state, primary_server>>
  /\ UNCHANGED <<ledgerVars, txVars, seqVars, subVars, msgVars, dialVars, storeVars, handVars>>

\* Requests submitted at any time to a Remote whose servers connect and
\* disconnect in any order.
NextRequest ==
  \/ \E p \in BOOLEAN : AddServer(p)
  \/ \E i \in 1..Len(servers) : ServerOnline(i)
  \/ \E i \in 1..Len(servers) : ServerOffline(i)
  \/ \E pin \in Pins : Submit("ping", pin)

SpecRequest == Init /\ [][NextRequest]_vars

\* connect()'s nextServer(i), i counting from 1 here: the server at place i
\* of the array is told to connect, and a timer is set for the next place if
\* there is one.
nextServer(i) ==
  /\ visited' = Append(IF i = 1 THEN <<>> ELSE visited, servers[i].id)
  /\ next_server' = IF i + 1 <= Len(servers) THEN i + 1 ELSE 0

\* Remote.prototype.connect(), with no argument, while no timer of an earlier
\* connect() is pending: it throws when there is no server, and else starts
\* with the first place of the array.
Connect ==
  /\ next_server = 0
  /\ IF Len(servers) = 0
     THEN /\ lastCall' = [op |-> "connect", threw |-> "No servers available."]
          /\ UNCHANGED dialVars
     ELSE /\ lastCall' = [op |-> "connect", threw |-> ""]
          /\ nextServer(1)
  /\ emitted' = <<>>
  /\ UNCHANGED <<connVars, submitted, connect_listeners>>
  /\ UNCHANGED <<ledgerVars, txVars, seqVars, subVars, msgVars, storeVars, handVars>>

\* The timer connect() has set fires after _connection_offset.
ConnectTimer ==
  /\ next_server # 0
  /\ nextServer(next_server)
  /\ lastCall' = [op |-> "none"]
  /\ emitted' = <<>>
  /\ UNCHANGED <<connVars, submitted, connect_listeners>>
  /\ UNCHANGED <<ledgerVars, txVars, seqVars, subVars, msgVars, storeVars, handVars>>

\* connect() on a pool whose servers are added, change their load and are
\* selected from in any order.
NextConnect ==
  \/ AddServer(FALSE)
  \/ \E i \in 1..Len(servers) : ServerOnline(i)
  \/ \E i \in 1..Len(servers), sc \in 0..MaxLoad : ServerLoad(i, sc, 0)
  \/ GetServer
  \/ Connect
  \/ ConnectTimer

SpecConnect == Init /\ [][NextConnect]_vars

\* A string is the sequence of its pieces: 'request_ping' is
\* <<"request", "_", "ping">>, 'requestPing' is <<"request", "Ping">>.
Method(key, fn) == [key |-> key, fn |-> fn]

\* Some of the methods remote.js defines on Remote.prototype: the property
\* name and the function it holds.
OwnMethods ==
  {Method(<<"ping">>, "requestPing"),
   Method(<<"request", "Ping">>, "requestPing"),
   Method(<<"request", "Subscribe">>, "requestSubscribe"),
   Method(<<"request", "Ledger">>, "requestLedger"),
   Method(<<"request">>, "request"),
   Method(<<"connect">>, "connect")}

\* A piece in lower case, and whether it begins with a capital.
LowerCase(piece) ==
  CASE piece = "Ping" -> "ping"
    [] piece = "Subscribe" -> "subscribe"
    [] piece = "Ledger" -> "ledger"
    [] OTHER -> piece

IsCapital(piece) == LowerCase(piece) # piece

\* The under_scored form of a camelCase name: '_' and the lower-case letter in
\* the place of each capital.
RECURSIVE Underscored(_)
Underscored(key) ==
  IF key = <<>>
  THEN <<>>
  ELSE (IF IsCapital(Head(key)) THEN <<"_", LowerCase(Head(key))>> ELSE <<Head(key)>>)
         \o Underscored(Tail(key))

\* The request builders among them: requestPing, requestSubscribe, ...
RequestBuilders == {m \in OwnMethods : Len(m.key) = 2 /\ m.key[1] = "request"}

\* The methods request(name) finds on the Remote: each request builder is
\* also there under its request_<name> name.
PrototypeMethods ==
  OwnMethods \cup {Method(Underscored(m.key), m.fn) : m \in RequestBuilders}

\* The strings request is called with.
RequestNames ==
  {<<"ping">>, <<"subscribe">>, <<"ledger">>, <<"bogus">>, <<"Ping">>,
   <<"request", "_", "ping">>, <<"request", "_", "bogus">>, <<"request", "Ping">>}

\* /^request_/.test(name)
HasRequestPrefix(name) == Len(name) >= 2 /\ name[1] = "request" /\ name[2] = "_"

\* request(name) looking up the name as it is given (a mutant).
requestNamed_AsGiven(name) ==
  IF \E m \in PrototypeMethods : m.key = name
  THEN [key |-> name, ret |-> Some((CHOOSE m \in PrototypeMethods : m.key = name).fn),
        threw |-> ""]
  ELSE [key |-> name, ret |-> Undefined, threw |-> "Command does not exist"]

\* Remote.prototype.request(request) for a string: the property name it looks
\* up, the method it calls, and the error it throws ("" for none).
requestNamed(name) ==
  LET key == IF HasRequestPrefix(name) THEN name ELSE <<"request", "_">> \o name
  IN IF \E m \in PrototypeMethods : m.key = key
     THEN [key |-> key, ret |-> Some((CHOOSE m \in PrototypeMethods : m.key = key).fn),
           threw |-> ""]
     ELSE [key |-> key, ret |-> Undefined, threw |-> "Command does not exist"]

\* A caller calls remote.request(name); the method called makes a Request and
\* returns it, submitting nothing.
RequestNamed(name) ==
  /\ lastCall' = [op |-> "requestNamed", name |-> name,
                  ret |-> requestNamed(name).ret, threw |-> requestNamed(name).threw]
  /\ emitted' = <<>>
  /\ UNCHANGED <<connVars, submitted, connect_listeners>>
  /\ UNCHANGED <<ledgerVars, txVars, seqVars, subVars, msgVars, dialVars, storeVars, handVars>>

\* request(name) called in any state of the connections.
NextNamed ==
  \/ \E p \in BOOLEAN : AddServer(p)
  \/ \E i \in 1..Len(servers) : ServerOnline(i)
  \/ \E i \in 1..Len(servers) : ServerOffline(i)
  \/ \E name \in RequestNames : RequestNamed(name)

SpecNamed == Init /\ [][NextNamed]_vars

\* ---------------------------------------------------------- ledger tracker

\* The hash and the close time a server reports for ledger n.
HashOf(n) == 1000 + n

TimeOf(n) == 10 * n

LedgerIndexInputs == {0} \cup (MinLedgerIndex..MaxLedgerIndex)

\* The ledgerClosed messages of the model: for each index a message with every
\* required field of its type, one whose ledger_index is not a number and one
\* with another required field missing.
LedgerClosedMessages ==
  {[ledger_index |-> Some(n), ledger_hash |-> Some(HashOf(n)),
    ledger_time |-> Some(TimeOf(n)), othersTyped |-> TRUE] : n \in LedgerIndexInputs}
  \cup {[ledger_index |-> Undefined, ledger_hash |-> Some(HashOf(MaxLedgerIndex)),
         ledger_time |-> Some(TimeOf(MaxLedgerIndex)), othersTyped |-> TRUE],
        [ledger_index |-> Some(MaxLedgerIndex), ledger_hash |-> Some(HashOf(MaxLedgerIndex)),
         ledger_time |-> Some(TimeOf(MaxLedgerIndex)), othersTyped |-> FALSE]}

\* The subscribe responses of the model: with a ledger notice for each index,
\* and one without a ledger hash.
SubscribeAcks ==
  {[ledger_index |-> Some(n), ledger_hash |-> Some(HashOf(n)),
    ledger_time |-> Some(TimeOf(n)), stand_alone |-> FALSE, testnet |-> FALSE]
     : n \in LedgerIndexInputs}
  \cup {[ledger_index |-> Undefined, ledger_hash |-> Undefined,
         ledger_time |-> Undefined, stand_alone |-> TRUE, testnet |-> TRUE]}

\* Remote.isValidLedgerData(message): othersTyped stands for the typeof tests
\* of fee_base, fee_ref, reserve_base, reserve_inc and txn_count.
IsValidLedgerData(msg) ==
  /\ msg.othersTyped
  /\ IsDef(msg.ledger_hash)
  /\ IsDef(msg.ledger_index)
  /\ IsDef(msg.ledger_time)

\* n > x in the place of n >= x (a mutant).
GreaterEq_Strict(n, x) == IsDef(x) /\ n > Val(x)

\* JavaScript's n >= x for a number n: false when x is undefined.
GreaterEq(n, x) == IsDef(x) /\ n >= Val(x)

\* JavaScript's truthiness of an optional number: undefined and 0 are falsy.
TruthyNumber(x) == IsDef(x) /\ Val(x) # 0

\* Remote.prototype._handleLedgerClosed(message): what it does to the ledger
\* tracker and what it emits.
handleLedgerClosed(msg) ==
  /\ Len(fed) < MaxFed
  /\ fed' = Append(fed, [kind |-> "ledgerClosed", msg |-> msg])
  /\ IF IsValidLedgerData(msg) /\ GreaterEq(Val(msg.ledger_index), ledger_current_index)
     THEN /\ ledger_time' = msg.ledger_time
          /\ ledger_hash' = msg.ledger_hash
          /\ ledger_current_index' = Some(Val(msg.ledger_index) + 1)
          /\ emitted' = <<Ev("ledger_closed", Val(msg.ledger_index))>>
          /\ accepted' = Append(accepted, Val(msg.ledger_index))
     ELSE /\ emitted' = <<>>
          /\ UNCHANGED <<ledger_time, ledger_hash, ledger_current_index, accepted>>
  /\ UNCHANGED <<stand_alone, testnet>>

\* A ledgerClosed message is handled.
HandleLedgerClosed(msg) ==
  /\ handleLedgerClosed(msg)
  /\ UNCHANGED <<connVars, txVars, seqVars, reqVars, subVars, msgVars, dialVars, storeVars, handVars>>

\* _serverPrepareSubscribe's serverSubscribed(message): the success handler of
\* a subscribe request.
ServerSubscribed(msg) ==
  /\ Len(fed) < MaxFed
  /\ fed' = Append(fed, [kind |-> "subscribed", msg |-> msg])
  /\ stand_alone' = Some(msg.stand_alone)
  /\ testnet' = Some(msg.testnet)
  /\ IF IsDef(msg.ledger_hash) /\ TruthyNumber(msg.ledger_index)
     THEN /\ ledger_time' = msg.ledger_time
          /\ ledger_hash' = msg.ledger_hash
          /\ ledger_current_index' = Some(Val(msg.ledger_index) + 1)
          /\ emitted' = <<Ev("ledger_closed", Val(msg.ledger_index)), Ev("subscribed", "")>>
          /\ accepted' = Append(accepted, Val(msg.ledger_index))
     ELSE /\ emitted' = <<Ev("subscribed", "")>>
          /\ UNCHANGED <<ledger_time, ledger_hash, ledger_current_index, accepted>>
  /\ UNCHANGED <<connVars, txVars, seqVars, reqVars, subVars, msgVars, dialVars, storeVars, handVars>>

\* The ledger tracker under ledgerClosed messages and subscribe responses
\* arriving from any server in any order.
NextLedger ==
  \/ \E msg \in LedgerClosedMessages : HandleLedgerClosed(msg)
  \/ \E msg \in SubscribeAcks : ServerSubscribed(msg)

SpecLedger == Init /\ [][NextLedger]_vars

\* -------------------------------------------- transaction dedup and fan-out

Accounts == {"a1", "a2"}

Books == {"b1"}

\* lru-cache get(key): whether the key is cached.
LRUHas(cache, k) == \E i \in 1..Len(cache) : cache[i] = k

\* lru-cache get(key) on a hit: the entry becomes the most recently used.
LRUTouch(cache, k) == Append(SelectSeq(cache, LAMBDA x : x # k), k)

\* lru-cache trim: the least recently used entries go until max are left.
LRUTrim(cache, max) ==
  IF Len(cache) > max THEN SubSeq(cache, Len(cache) - max + 1, Len(cache)) ELSE cache

\* lru-cache set(key, true): the key becomes the most recently used entry.
LRUSet(cache, k, max) == LRUTrim(Append(SelectSeq(cache, LAMBDA x : x # k), k), max)

\* The transaction messages of the model: with metadata (affected accounts
\* and books as Meta reports them) or without (a proposed transaction).
MetaInputs ==
  {[accounts |-> <<>>, books |-> <<"b1">>],
   [accounts |-> <<"a1">>, books |-> <<>>],
   [accounts |-> <<"a1", "a2">>, books |-> <<"b1">>]}

TxMessagesOf(hashes) ==
  {[hash |-> h, validated |-> v, meta |-> Some(md),
    Account |-> Some("a1"), Destination |-> Some("a2")]
     : h \in hashes, v \in BOOLEAN, md \in MetaInputs}
  \cup
  {[hash |-> h, validated |-> v, meta |-> Undefined,
    Account |-> Some(a), Destination |-> d]
     : h \in hashes, v \in BOOLEAN, a \in Accounts,
       d \in {Undefined} \cup {Some(b) : b \in Accounts}}

TxMessages == TxMessagesOf(1..NumHashes)

\* notify(el) for each key in turn, on the registry reg: a call for each key
\* that has a registered object.
NotifyEach(keys, reg, kind) ==
  LET hits == SelectSeq(keys, LAMBDA k : k \in reg)
  IN [i \in 1..Len(hits) |-> [kind |-> kind, key |-> hits[i]]]

\* The keys message.transaction.Account and .Destination that are present.
DirectAccounts(msg) ==
  (IF IsDef(msg.Account) THEN <<Val(msg.Account)>> ELSE <<>>)
    \o (IF IsDef(msg.Destination) THEN <<Val(msg.Destination)>> ELSE <<>>)

\* _handleTransaction caching the hashes that are not validated (a mutant).
handleTransaction_Mut(msg) ==
  IF LRUHas(received_tx, msg.hash)
  THEN /\ received_tx' = LRUTouch(received_tx, msg.hash)
       /\ notified' = <<>>
       /\ emitted' = <<>>
  ELSE /\ received_tx' = IF ~msg.validated
                         THEN LRUSet(received_tx, msg.hash, ReceivedTxMax)
                         ELSE received_tx
       /\ notified' = IF IsDef(msg.meta)
                      THEN NotifyEach(Val(msg.meta).accounts, accountsReg, "account")
                             \o NotifyEach(Val(msg.meta).books, booksReg, "book")
                      ELSE NotifyEach(DirectAccounts(msg), accountsReg, "account")
       /\ emitted' = <<Ev("transaction", msg.hash), Ev("transaction_all", msg.hash)>>

\* _handleTransaction emitting transaction_all before the look-up (a mutant).
handleTransaction_EmitFirst(msg) ==
  IF LRUHas(received_tx, msg.hash)
  THEN /\ received_tx' = LRUTouch(received_tx, msg.hash)
       /\ notified' = <<>>
       /\ emitted' = <<Ev("transaction_all", msg.hash)>>
  ELSE /\ received_tx' = IF msg.validated
                         THEN LRUSet(received_tx, msg.hash, ReceivedTxMax)
                         ELSE received_tx
       /\ notified' = IF IsDef(msg.meta)
                      THEN NotifyEach(Val(msg.meta).accounts, accountsReg, "account")
                             \o NotifyEach(Val(msg.meta).books, booksReg, "book")
                      ELSE NotifyEach(DirectAccounts(msg), accountsReg, "account")
       /\ emitted' = <<Ev("transaction_all", msg.hash), Ev("transaction", msg.hash)>>

\* _handleTransaction without the look-up in the cache (a mutant).
handleTransaction_NoDedup(msg) ==
  /\ received_tx' = IF msg.validated
                    THEN LRUSet(received_tx, msg.hash, ReceivedTxMax)
                    ELSE received_tx
  /\ notified' = IF IsDef(msg.meta)
                 THEN NotifyEach(Val(msg.meta).accounts, accountsReg, "account")
                        \o NotifyEach(Val(msg.meta).books, booksReg, "book")
                 ELSE NotifyEach(DirectAccounts(msg), accountsReg, "account")
  /\ emitted' = <<Ev("transaction", msg.hash), Ev("transaction_all", msg.hash)>>

\* _handleTransaction notifying the transaction's own accounts whether or not
\* there is metadata (a mutant).
handleTransaction_AlsoDirect(msg) ==
  IF LRUHas(received_tx, msg.hash)
  THEN /\ received_tx' = LRUTouch(received_tx, msg.hash)
       /\ notified' = <<>>
       /\ emitted' = <<>>
  ELSE /\ received_tx' = IF msg.validated
                         THEN LRUSet(received_tx, msg.hash, ReceivedTxMax)
                         ELSE received_tx
       /\ notified' = (IF IsDef(msg.meta)
                       THEN NotifyEach(Val(msg.meta).accounts, accountsReg, "account")
                              \o NotifyEach(Val(msg.meta).books, booksReg, "book")
                       ELSE <<>>)
                        \o NotifyEach(DirectAccounts(msg), accountsReg, "account")
       /\ emitted' = <<Ev("transaction", msg.hash), Ev("transaction_all", msg.hash)>>

\* Remote.prototype._handleTransaction(message).
handleTransaction(msg) ==
  IF LRUHas(received_tx, msg.hash)
  THEN /\ received_tx' = LRUTouch(received_tx, msg.hash)
       /\ notified' = <<>>
       /\ emitted' = <<>>
  ELSE /\ received_tx' = IF msg.validated
                         THEN LRUSet(received_tx, msg.hash, ReceivedTxMax)
                         ELSE received_tx
       /\ notified' = IF IsDef(msg.meta)
                      THEN NotifyEach(Val(msg.meta).accounts, accountsReg, "account")
                             \o NotifyEach(Val(msg.meta).books, booksReg, "book")
                      ELSE NotifyEach(DirectAccounts(msg), accountsReg, "account")
       /\ emitted' = <<Ev("transaction", msg.hash), Ev("transaction_all", msg.hash)>>

\* What the deliveries so far were, for the hash h.
SeenOf(h) == IF h \in DOMAIN seen THEN seen[h] ELSE [unvalidated |-> 0, validated |-> FALSE]

\* The history after the delivery of msg: per hash, whether it was delivered
\* validated and how often (up to twice) it was delivered not validated
\* before that.
Delivered(msg) ==
  LET old == SeenOf(msg.hash)
      new == IF msg.validated
             THEN [old EXCEPT !.validated = TRUE]
             ELSE [old EXCEPT !.unvalidated = IF ~old.validated /\ @ < 2 THEN @ + 1 ELSE @]
  IN /\ seen' = [h \in DOMAIN seen \cup {msg.hash} |-> IF h = msg.hash THEN new ELSE seen[h]]
     /\ lastTx' = Some(msg)
     /\ lastMarked' = old.validated

\* Remote.prototype.addAccount(accountID), for a valid account id.
AddAccount(a) ==
  /\ accountsReg' = accountsReg \cup {a}
  /\ notified' = <<>>
  /\ emitted' = <<>>
  /\ lastTx' = Undefined
  /\ lastMarked' = FALSE
  /\ UNCHANGED <<received_tx, booksReg, seen, txFresh, txAgain>>
  /\ UNCHANGED <<connVars, ledgerVars, seqVars, reqVars, subVars, msgVars, dialVars, storeVars, handVars>>

\* Remote.prototype.createOrderBook(...), for a valid book with key b.
CreateOrderBook(b) ==
  /\ booksReg' = booksReg \cup {b}
  /\ notified' = <<>>
  /\ emitted' = <<>>
  /\ lastTx' = Undefined
  /\ lastMarked' = FALSE
  /\ UNCHANGED <<received_tx, accountsReg, seen, txFresh, txAgain>>
  /\ UNCHANGED <<connVars, ledgerVars, seqVars, reqVars, subVars, msgVars, dialVars, storeVars, handVars>>

\* A 'transaction' message arrives from some server.
DeliverTransaction(msg) ==
  /\ handleTransaction(msg)
  /\ Delivered(msg)
  /\ UNCHANGED <<accountsReg, booksReg, txFresh, txAgain>>
  /\ UNCHANGED <<connVars, ledgerVars, seqVars, reqVars, subVars, msgVars, dialVars, storeVars, handVars>>

\* The fan-out under transaction messages for a few hashes in any order.
NextTx ==
  \/ \E a \in Accounts : AddAccount(a)
  \/ \E b \in Books : CreateOrderBook(b)
  \/ \E msg \in TxMessages : DeliverTransaction(msg)

SpecTx == Init /\ [][NextTx]_vars

\* A validated transaction with a hash never delivered before: hash txFresh + 1.
DeliverFresh ==
  /\ txFresh < NumFill
  /\ txAgain = 0
  /\ LET msg == [hash |-> txFresh + 1, validated |-> TRUE, meta |-> Undefined,
                 Account |-> Some("a1"), Destination |-> Undefined]
     IN handleTransaction(msg) /\ Delivered(msg)
  /\ txFresh' = txFresh + 1
  /\ UNCHANGED <<accountsReg, booksReg, txAgain>>
  /\ UNCHANGED <<connVars, ledgerVars, seqVars, reqVars, subVars, msgVars, dialVars, storeVars, handVars>>

\* After them, a message with one of their hashes is delivered again.
Redeliver(h, v) ==
  /\ txFresh = NumFill
  /\ txAgain < MaxRedeliver
  /\ LET msg == [hash |-> h, validated |-> v, meta |-> Undefined,
                 Account |-> Some("a1"), Destination |-> Undefined]
     IN handleTransaction(msg) /\ Delivered(msg)
  /\ txAgain' = txAgain + 1
  /\ UNCHANGED <<accountsReg, booksReg, txFresh>>
  /\ UNCHANGED <<connVars, ledgerVars, seqVars, reqVars, subVars, msgVars, dialVars, storeVars, handVars>>

\* The de-duplication cache filled past its capacity.
NextDedup ==
  \/ (txFresh = 0 /\ AddAccount("a1"))
  \/ DeliverFresh
  \/ \E h \in 1..NumFill, v \in BOOLEAN : Redeliver(h, v)

SpecDedup == Init /\ [][NextDedup]_vars

\* --------------------------------------------------- account sequence cache

Callbacks == {"cb1", "cb2"}

\* The values setAccountSeq is called with, and the Sequence fields a
\* ledger_entry response carries.
SetSeqInputs == {10}

LookupSeqs == {10, 12}

\* The advance arguments of getAccountSequence: strings, or none at all.
AdvanceInputs == {Some("ADVANCE"), Some("REWIND"), Some("advance"), Some(""), Undefined}

\* A stored sequence is undefined (<<>>), a number (<<n>>) or NaN.
NaN == <<0, 0>>

IsNumber(x) == Len(x) = 1

\* JavaScript's x + d for a number d: NaN when x is undefined or NaN.
JSAdd(x, d) == IF IsNumber(x) THEN Some(Val(x) + d) ELSE NaN

\* String.prototype.toUpperCase, on the strings of the model.
ToUpperCase(str) ==
  CASE str = "advance" -> "ADVANCE"
    [] str = "rewind" -> "REWIND"
    [] OTHER -> str

\* { ADVANCE: 1, REWIND: -1 }[advance.toUpperCase()] || 0
Change(adv) ==
  CASE ToUpperCase(adv) = "ADVANCE" -> 1
    [] ToUpperCase(adv) = "REWIND" -> -1
    [] OTHER -> 0

\* UInt160.json_rewrite(account), on canonical account ids.
JsonRewrite(a) == a

\* obj[k] = v
Put(f, k, v) == [x \in DOMAIN f \cup {k} |-> IF x = k THEN v ELSE f[x]]

\* delete obj[k] emptying the object (a mutant).
Delete_All(f, k) == [x \in {} |-> f[x]]

\* delete obj[k]
Delete(f, k) == [x \in DOMAIN f \ {k} |-> f[x]]

\* The part of the Remote the sequence cache works on.
Snapshot ==
  [accounts |-> accounts, requests |-> requests, account_root |-> account_root,
   called |-> <<>>]

Commit(S) ==
  /\ accounts' = S.accounts
  /\ requests' = S.requests
  /\ account_root' = S.account_root
  /\ called' = S.called

\* requestLedgerEntry('account_root') with accountRootSuccess and
\* accountRootError registered once each: not yet requested, no response yet,
\* no caller attached, no caching handler registered.
NewRequest(a) ==
  [account |-> a, requested |-> FALSE, responded |-> FALSE,
   onSuccess |-> TRUE, onError |-> TRUE, cacheReg |-> FALSE, listeners |-> <<>>]

\* Neither accountRootSuccess nor accountRootError has run for the Request.
Outstanding(q) == q.onSuccess /\ q.onError

OutstandingFor(a) ==
  {r \in 1..Len(requests) : requests[r].account = a /\ Outstanding(requests[r])}

\* The Request r emits 'success' with node.Sequence = v: accountRootSuccess,
\* which emits success_account_seq_cache to the attached callers, then the
\* caching handler of the intercepted request.
EmitSuccess(S, r, v) ==
  LET q == S.requests[r]
      S1 == IF q.onSuccess
            THEN [S EXCEPT
                    !.accounts[q.account] = [seq |-> Some(v), caching_seq_request |-> Undefined],
                    !.called = @ \o [i \in 1..Len(q.listeners) |->
                                       [cb |-> q.listeners[i], err |-> FALSE, seq |-> v]],
                    !.requests[r].onSuccess = FALSE,
                    !.requests[r].listeners = <<>>]
            ELSE S
  IN IF q.cacheReg
     THEN [S1 EXCEPT !.account_root = Put(@, q.account, v),
                     !.requests[r].cacheReg = FALSE]
     ELSE S1

\* accountRootError leaving the marker of the entry in place (a mutant).
EmitError_KeepMarker(S, r) ==
  LET q == S.requests[r]
  IN IF q.onError
     THEN [S EXCEPT
             !.called = @ \o [i \in 1..Len(q.listeners) |->
                                [cb |-> q.listeners[i], err |-> TRUE, seq |-> 0]],
             !.requests[r].onError = FALSE,
             !.requests[r].listeners = <<>>]
     ELSE S

\* The Request r emits 'error': accountRootError, which emits
\* error_account_seq_cache to the attached callers.
EmitError(S, r) ==
  LET q == S.requests[r]
  IN IF q.onError
     THEN [S EXCEPT
             !.accounts[q.account].caching_seq_request = Undefined,
             !.called = @ \o [i \in 1..Len(q.listeners) |->
                                [cb |-> q.listeners[i], err |-> TRUE, seq |-> 0]],
             !.requests[r].onError = FALSE,
             !.requests[r].listeners = <<>>]
     ELSE S

\* Request.prototype.request: the Request goes to the Remote, once.
RequestDefault(S, r) == [S EXCEPT !.requests[r].requested = TRUE]

\* The request() that requestLedgerEntry('account_root') installs.
InterceptedRequest(S, r) ==
  LET a == S.requests[r].account
  IN IF ~IsDef(ledger_hash)
     THEN IF a \in DOMAIN S.account_root
          THEN EmitSuccess(S, r, S.account_root[a])
          ELSE RequestDefault([S EXCEPT !.requests[r].cacheReg = TRUE], r)
     ELSE RequestDefault(S, r)

\* callback() keeping only the caller attached last (a mutant).
Callback_Replace(S, r, cb) ==
  InterceptedRequest([S EXCEPT !.requests[r].listeners = <<cb>>], r)

\* Request.prototype.callback(fn, successEvent, errorEvent): the caller is
\* attached to the two events and the Request is requested.
Callback(S, r, cb) ==
  InterceptedRequest([S EXCEPT !.requests[r].listeners = Append(@, cb)], r)

\* accountSeqCache making a new Request on every call (a mutant).
accountSeqCache_NoGuard(a, cb) ==
  LET info == IF a \in DOMAIN accounts
              THEN accounts[a]
              ELSE [seq |-> Undefined, caching_seq_request |-> Undefined]
      r == Len(requests) + 1
      S0 == [accounts |-> Put(accounts, a, [info EXCEPT !.caching_seq_request = Some(r)]),
             requests |-> Append(requests, NewRequest(a)),
             account_root |-> account_root, called |-> <<>>]
  IN [S |-> IF IsDef(cb) THEN Callback(S0, r, Val(cb)) ELSE S0, ret |-> r]

\* Remote.prototype.accountSeqCache(account, ledger, callback): the Remote it
\* leaves and the Request it returns.
accountSeqCache(a, cb) ==
  LET info == IF a \in DOMAIN accounts
              THEN accounts[a]
              ELSE [seq |-> Undefined, caching_seq_request |-> Undefined]
      create == ~IsDef(info.caching_seq_request)
      r == IF create THEN Len(requests) + 1 ELSE Val(info.caching_seq_request)
      S0 == [accounts |-> Put(accounts, a,
                              IF create
                              THEN [info EXCEPT !.caching_seq_request = Some(r)]
                              ELSE info),
             requests |-> IF create THEN Append(requests, NewRequest(a)) ELSE requests,
             account_root |-> account_root, called |-> <<>>]
  IN [S |-> IF IsDef(cb) THEN Callback(S0, r, Val(cb)) ELSE S0, ret |-> r]

NoPending == [callers |-> <<>>, lookups |-> 0]

\* A caller refreshes the sequence of account a, with a callback or without.
AccountSeqCache(a, cb) ==
  LET res == accountSeqCache(a, cb)
      S == res.S
      r == res.ret
      sentNow == IF S.requests[r].requested /\ ~(r <= Len(requests) /\ requests[r].requested)
                 THEN 1 ELSE 0
  IN /\ Len(S.requests) <= MaxRequests
     /\ \A q \in 1..Len(S.requests) : Len(S.requests[q].listeners) <= MaxListeners
     /\ Commit(S)
     /\ lastOp' = [op |-> "refresh", account |-> a, ret |-> r, cb |-> cb,
                   cached |-> a \in DOMAIN account_root,
                   inflight |-> OutstandingFor(a),
                   created |-> Len(S.requests) - Len(requests)]
     /\ pending' = [pending EXCEPT ![a] =
                      IF Outstanding(S.requests[r])
                      THEN [callers |-> @.callers \o (IF IsDef(cb) THEN <<Val(cb)>> ELSE <<>>),
                            lookups |-> @.lookups + sentNow]
                      ELSE NoPending]
     /\ advRun' = NoRun
     /\ emitted' = <<>>
     /\ UNCHANGED <<connVars, ledgerVars, txVars, reqVars, subVars, msgVars, dialVars, storeVars, handVars>>

\* The server answers the look-up of Request r with an account root whose
\* Sequence is v.
LookupSuccess(r, v) ==
  /\ requests[r].requested
  /\ ~requests[r].responded
  /\ Commit(EmitSuccess([Snapshot EXCEPT !.requests[r].responded = TRUE], r, v))
  /\ lastOp' = [op |-> "success", account |-> requests[r].account, request |-> r, seq |-> v,
                callers |-> pending[requests[r].account].callers,
                lookups |-> pending[requests[r].account].lookups]
  /\ pending' = [pending EXCEPT ![requests[r].account] = NoPending]
  /\ advRun' = NoRun
  /\ emitted' = <<>>
  /\ UNCHANGED <<connVars, ledgerVars, txVars, reqVars, subVars, msgVars, dialVars, storeVars, handVars>>

\* The look-up of Request r fails.
LookupError(r) ==
  /\ requests[r].requested
  /\ ~requests[r].responded
  /\ Commit(EmitError([Snapshot EXCEPT !.requests[r].responded = TRUE], r))
  /\ lastOp' = [op |-> "error", account |-> requests[r].account, request |-> r,
                before |-> accounts[requests[r].account].seq,
                callers |-> pending[requests[r].account].callers,
                lookups |-> pending[requests[r].account].lookups]
  /\ pending' = [pending EXCEPT ![requests[r].account] = NoPending]
  /\ advRun' = NoRun
  /\ emitted' = <<>>
  /\ UNCHANGED <<connVars, ledgerVars, txVars, reqVars, subVars, msgVars, dialVars, storeVars, handVars>>

\* Remote.prototype.setAccountSeq(account, sequence).
SetAccountSeq(a, n) ==
  LET key == JsonRewrite(a)
      info == IF key \in DOMAIN accounts
              THEN accounts[key]
              ELSE [seq |-> Undefined, caching_seq_request |-> Undefined]
  IN /\ accounts' = Put(accounts, key, [info EXCEPT !.seq = Some(n)])
     /\ called' = <<>>
     /\ lastOp' = [op |-> "set", account |-> key, seq |-> n]
     /\ advRun' = NoRun
     /\ emitted' = <<>>
     /\ UNCHANGED <<requests, account_root, pending>>
     /\ UNCHANGED <<connVars, ledgerVars, txVars, reqVars, subVars, msgVars, dialVars, storeVars, handVars>>

\* getAccountSequence changing the stored value before it reads it (a mutant).
getAccountSequence_Mut(a, adv) ==
  LET key == JsonRewrite(a)
  IN IF key \notin DOMAIN accounts
     THEN [accounts |-> accounts, ret |-> Undefined, threw |-> FALSE]
     ELSE IF ~IsDef(adv)
     THEN [accounts |-> accounts, ret |-> Undefined, threw |-> TRUE]
     ELSE [accounts |-> [accounts EXCEPT ![key].seq = JSAdd(@, Change(Val(adv)))],
           ret |-> JSAdd(accounts[key].seq, Change(Val(adv))), threw |-> FALSE]

\* Remote.prototype.getAccountSequence(account, advance): the cache it leaves
\* and what it returns; it throws when advance is no string.
getAccountSequence(a, adv) ==
  LET key == JsonRewrite(a)
  IN IF key \notin DOMAIN accounts
     THEN [accounts |-> accounts, ret |-> Undefined, threw |-> FALSE]
     ELSE IF ~IsDef(adv)
     THEN [accounts |-> accounts, ret |-> Undefined, threw |-> TRUE]
     ELSE [accounts |-> [accounts EXCEPT ![key].seq = JSAdd(@, Change(Val(adv)))],
           ret |-> accounts[key].seq, threw |-> FALSE]

\* A caller asks for the sequence of account a: the call and what is noted of it.
CallGetAccountSequence(a, adv) ==
  LET res == getAccountSequence(a, adv)
      known == JsonRewrite(a) \in DOMAIN accounts
      before == IF known THEN accounts[JsonRewrite(a)].seq ELSE Undefined
      advancing == known /\ IsDef(adv) /\ ToUpperCase(Val(adv)) = "ADVANCE"
      rewinding == known /\ IsDef(adv) /\ ToUpperCase(Val(adv)) = "REWIND"
  IN /\ (advancing /\ IsNumber(before)) => Val(before) < MaxSeq
     /\ (rewinding /\ IsNumber(before)) => Val(before) > MinSeq
     /\ accounts' = res.accounts
     /\ called' = <<>>
     /\ lastOp' = [op |-> "get", account |-> a, adv |-> adv, known |-> known,
                   before |-> before, ret |-> res.ret, threw |-> res.threw]
     /\ advRun' = IF advancing
                  THEN IF advRun.account = a /\ Len(advRun.rets) < 3
                       THEN [advRun EXCEPT !.rets = Append(@, res.ret)]
                       ELSE [account |-> a, start |-> before, rets |-> <<res.ret>>]
                  ELSE NoRun
     /\ emitted' = <<>>
     /\ UNCHANGED <<requests, account_root, pending>>
     /\ UNCHANGED <<connVars, ledgerVars, txVars, reqVars, subVars, msgVars, dialVars, storeVars>>

\* A caller asks for the sequence of account a.
GetAccountSequence(a, adv) ==
  /\ CallGetAccountSequence(a, adv)
  /\ UNCHANGED handVars

\* The numbers handed out for account a so far.
HandedFor(a) == IF a \in DOMAIN handed THEN handed[a] ELSE <<>>

\* A caller takes the next sequence of account a:
\* getAccountSequence(a, 'ADVANCE'), the number returned being noted.
Advance(a) ==
  /\ Len(HandedFor(a)) < MaxHanded
  /\ CallGetAccountSequence(a, Some("ADVANCE"))
  /\ handed' = IF IsNumber(lastOp'.ret)
               THEN Put(handed, a, Append(HandedFor(a), Val(lastOp'.ret)))
               ELSE handed

\* Remote.prototype.dirtyAccountRoot(account).
DirtyAccountRoot(a) ==
  /\ account_root' = Delete(account_root, JsonRewrite(a))
  /\ called' = <<>>
  /\ lastOp' = [op |-> "dirty", account |-> a]
  /\ advRun' = NoRun
  /\ emitted' = <<>>
  /\ UNCHANGED <<accounts, requests, pending>>
  /\ UNCHANGED <<connVars, ledgerVars, txVars, reqVars, subVars, msgVars, dialVars, storeVars, handVars>>

\* The first subscribe response, after which the Remote knows a ledger hash.
FirstSubscribed ==
  /\ ~IsDef(ledger_hash)
  /\ \E msg \in SubscribeAcks :
       /\ IsDef(msg.ledger_index)
       /\ Val(msg.ledger_index) = MaxLedgerIndex
       /\ ServerSubscribed(msg)

\* Refreshes of the account sequence cache, with or without a callback, the
\* completions of their look-ups, and what changes the caches between them.
NextRefresh ==
  \/ \E a \in Accounts, cb \in {Undefined} \cup {Some(c) : c \in Callbacks} : AccountSeqCache(a, cb)
  \/ \E r \in 1..Len(requests), v \in LookupSeqs : LookupSuccess(r, v)
  \/ \E r \in 1..Len(requests) : LookupError(r)
  \/ \E a \in Accounts, n \in SetSeqInputs : SetAccountSeq(a, n)
  \/ \E a \in Accounts : DirtyAccountRoot(a)
  \/ FirstSubscribed

SpecRefresh == Init /\ [][NextRefresh]_vars

\* The local sequence operations, on sequences that were set or that a
\* refresh brought.
NextSeq ==
  \/ \E a \in Accounts, n \in SetSeqInputs : SetAccountSeq(a, n)
  \/ \E a \in Accounts, adv \in AdvanceInputs : GetAccountSequence(a, adv)
  \/ \E a \in Accounts : AccountSeqCache(a, Some("cb1"))
  \/ \E r \in 1..Len(requests), v \in LookupSeqs : LookupSuccess(r, v)

SpecSeq == Init /\ [][NextSeq]_vars

\* Sequences taken with ADVANCE while refreshes are made and complete.
NextAdvance ==
  \/ \E a \in Accounts : Advance(a)
  \/ \E a \in Accounts : AccountSeqCache(a, Some("cb1"))
  \/ \E r \in 1..Len(requests), v \in LookupSeqs : LookupSuccess(r, v)
  \/ \E r \in 1..Len(requests) : LookupError(r)

SpecAdvance == Init /\ [][NextAdvance]_vars

\* ------------------------------------------- transaction_all subscriptions

\* listenerAdded asking for the stream on every new listener (a mutant).
listenerAdded_Always(type) ==
  IF type = "transaction_all"
  THEN [issue |-> IF connected THEN <<"subscribe">> ELSE <<>>,
        subs |-> transaction_subs + 1]
  ELSE [issue |-> <<>>, subs |-> transaction_subs]

\* The constructor's listenerAdded(type, listener): the request it issues for
\* the transactions stream, and the count it leaves.
listenerAdded(type) ==
  IF type = "transaction_all"
  THEN [issue |-> IF transaction_subs = 0 /\ connected THEN <<"subscribe">> ELSE <<>>,
        subs |-> transaction_subs + 1]
  ELSE [issue |-> <<>>, subs |-> transaction_subs]

\* The constructor's listenerRemoved(type, listener).
listenerRemoved(type) ==
  IF type = "transaction_all"
  THEN [issue |-> IF transaction_subs - 1 = 0 /\ connected THEN <<"unsubscribe">> ELSE <<>>,
        subs |-> transaction_subs - 1]
  ELSE [issue |-> <<>>, subs |-> transaction_subs]

\* The Requests of the commands in issue are made and requested: each goes
\* through Remote.request.
Issue(issue, op, type, subsAfter) ==
  IF issue = <<>>
  THEN /\ transaction_subs' = subsAfter
       /\ lastCall' = [op |-> op, type |-> type, before |-> transaction_subs, online |-> connected,
                       issued |-> <<>>]
       /\ UNCHANGED <<servers, submitted, connect_listeners>>
  ELSE /\ Len(submitted) < MaxSubmitted
       /\ \E o \in request([servers |-> servers,
                            submitted |-> Append(submitted, NewSubmitted(issue[1], NoPin)),
                            connect_listeners |-> connect_listeners,
                            threw |-> ""],
                           Len(submitted) + 1, connected, primary_server) :
            /\ servers' = o.servers
            /\ submitted' = o.submitted
            /\ connect_listeners' = o.connect_listeners
            /\ transaction_subs' = IF o.threw # "" /\ op = "on"
                                   THEN transaction_subs
                                   ELSE subsAfter
            /\ lastCall' = [op |-> op, type |-> type, before |-> transaction_subs, online |-> connected,
                            issued |-> [k \in 1..(Len(o.submitted) - Len(submitted)) |->
                                          o.submitted[Len(submitted) + k].command]]

EventTypes == {"transaction_all", "ledger_closed"}

\* remote.on(type, listener): 'newListener' is emitted and listenerAdded runs.
AddListener(type) ==
  /\ transaction_subs < MaxSubs
  /\ Issue(listenerAdded(type).issue, "on", type, listenerAdded(type).subs)
  /\ emitted' = <<>>
  /\ UNCHANGED <<connection_count, state, connected, online_state, primary_server>>
  /\ UNCHANGED <<ledgerVars, txVars, seqVars, msgVars, dialVars, storeVars, handVars>>

\* remote.removeListener(type, listener) for a registered listener:
\* 'removeListener' is emitted and listenerRemoved runs.  Of the listeners
\* for 'transaction_all' there are as many as _transaction_subs counts.
RemoveListener(type) ==
  /\ type = "transaction_all" => transaction_subs > 0
  /\ Issue(listenerRemoved(type).issue, "removeListener", type, listenerRemoved(type).subs)
  /\ emitted' = <<>>
  /\ UNCHANGED <<connection_count, state, connected, online_state, primary_server>>
  /\ UNCHANGED <<ledgerVars, txVars, seqVars, msgVars, dialVars, storeVars, handVars>>

\* Listeners added and removed while the servers connect and disconnect.
NextSubs ==
  \/ AddServer(FALSE)
  \/ \E i \in 1..Len(servers) : ServerOnline(i)
  \/ \E i \in 1..Len(servers) : ServerOffline(i)
  \/ \E type \in EventTypes : AddListener(type)
  \/ \E type \in EventTypes : RemoveListener(type)

SpecSubs == Init /\ [][NextSubs]_vars

\* _serverPrepareSubscribe asking for the transactions stream whatever the
\* count (a mutant).
serverPrepareSubscribe_Always(subs) ==
  [command |-> "subscribe", streams |-> <<"ledger", "server", "transactions">>]

\* Remote.prototype._serverPrepareSubscribe(callback): the Request it makes,
\* subs being this._transaction_subs.
serverPrepareSubscribe(subs) ==
  [command |-> "subscribe",
   streams |-> <<"ledger", "server">> \o (IF subs # 0 THEN <<"transactions">> ELSE <<>>)]

\* A server about to subscribe calls remote._serverPrepareSubscribe(); the
\* Request is returned to it and not submitted through the Remote.
ServerPrepareSubscribe ==
  /\ Len(servers) > 0
  /\ lastCall' = [op |-> "prepare", before |-> transaction_subs,
                  request |-> serverPrepareSubscribe(transaction_subs)]
  /\ emitted' = <<Ev("prepare_subscribe", "subscribe")>>
  /\ UNCHANGED <<connVars, submitted, connect_listeners>>
  /\ UNCHANGED <<ledgerVars, txVars, seqVars, subVars, msgVars, dialVars, storeVars, handVars>>

\* Subscribe requests prepared while listeners come and go.
NextPrepare ==
  \/ AddServer(FALSE)
  \/ \E i \in 1..Len(servers) : ServerOnline(i)
  \/ \E i \in 1..Len(servers) : ServerOffline(i)
  \/ \E type \in EventTypes : AddListener(type)
  \/ \E type \in EventTypes : RemoveListener(type)
  \/ ServerPrepareSubscribe

SpecPrepare == Init /\ [][NextPrepare]_vars

\* -------------------------------------------------- inbound message handler

\* What JSON.parse makes of an object's "type" member: absent, a number or a
\* string.
NoType == [typeOf |-> "undefined", name |-> ""]

NumberType == [typeOf |-> "number", name |-> ""]

StringType(name) == [typeOf |-> "string", name |-> name]

\* A JavaScript value as the handler looks at it: its kind ("string",
\* "number", "null", "array" or "object"), its type member, and the ledger or
\* transaction fields it carries.
Value(kind, type, ledger, tx) == [kind |-> kind, type |-> type, ledger |-> ledger, tx |-> tx]

Plain(kind) == Value(kind, NoType, Undefined, Undefined)

\* The ledgerClosed and transaction messages the payloads carry.
PayloadLedgers == {msg \in LedgerClosedMessages :
                     /\ IsValidLedgerData(msg)
                     /\ Val(msg.ledger_index) \in {MinLedgerIndex, MaxLedgerIndex}}

PayloadTransactions == {msg \in TxMessagesOf({1}) :
                          /\ ~IsDef(msg.meta)
                          /\ msg.Account = Some("a1")
                          /\ ~IsDef(msg.Destination)}

\* The payloads a server delivers: text that is no JSON, and the JSON texts of
\* a number, a string, null, an array, an object without type, an object
\* whose type is a number, and objects of each message type and of a type the
\* Remote does not know.
Payloads ==
  {[json |-> FALSE, value |-> Plain("string")]}
  \cup {[json |-> TRUE, value |-> Plain(k)] : k \in {"number", "string", "null", "array", "object"}}
  \cup {[json |-> TRUE, value |-> Value("object", NumberType, Undefined, Undefined)]}
  \cup {[json |-> TRUE, value |-> Value("object", StringType(t), Undefined, Undefined)]
          : t \in {"serverStatus", "find_path", "response"}}
  \cup {[json |-> TRUE, value |-> Value("object", StringType("ledgerClosed"), Some(msg), Undefined)]
          : msg \in PayloadLedgers}
  \cup {[json |-> TRUE, value |-> Value("object", StringType("transaction"), Undefined, Some(msg))]
          : msg \in PayloadTransactions}

\* try { message = JSON.parse(message) } catch (e) { }: the parsed value, or
\* the payload itself, a string, when it is no JSON.
JsonParse(data) == IF data.json THEN data.value ELSE Plain("string")

\* JavaScript's typeof.
TypeOf(v) == IF v.kind \in {"null", "array", "object"} THEN "object" ELSE v.kind

\* Remote.isValidMessage(message): "TypeError" when reading message.type
\* throws, else "true" or "false".
IsValidMessage(v) ==
  IF TypeOf(v) # "object"
  THEN "false"
  ELSE IF v.kind = "null"
  THEN "TypeError"
  ELSE IF v.type.typeOf = "string" THEN "true" ELSE "false"

UnexpectedResponse == Ev("error", "remoteUnexpected")

\* A call of method on the PathFind object pf, this._cur_path_find being cur
\* when it is made.
PathCall(pf, method, cur) == [pf |-> pf, method |-> method, cur |-> cur]

\* Remote.prototype._handlePathFind(message).
handlePathFind ==
  /\ IsDef(cur_path_find) => Len(path_calls) < MaxPathCalls
  /\ path_calls' = IF IsDef(cur_path_find)
                   THEN Append(path_calls,
                               PathCall(Val(cur_path_find), "notify_update", cur_path_find))
                   ELSE path_calls
  /\ emitted' = <<Ev("path_find_all", "")>>
  /\ UNCHANGED <<cur_path_find, path_finds>>

\* createPathFind installing the new PathFind without a word to the one it
\* replaces (a mutant).
createPathFind_NoNotify(cur, made, calls) ==
  [cur |-> Some(made + 1), made |-> made + 1,
   calls |-> Append(calls, PathCall(made + 1, "create", cur))]

\* Remote.prototype.createPathFind(...): the PathFind made is number made + 1;
\* the one installed, if any, is told notify_superceded(), the new one
\* create(), and then the new one is installed.
createPathFind(cur, made, calls) ==
  LET pathFind == made + 1
      told == IF IsDef(cur)
              THEN Append(calls, PathCall(Val(cur), "notify_superceded", cur))
              ELSE calls
  IN [cur |-> Some(pathFind), made |-> pathFind,
      calls |-> Append(told, PathCall(pathFind, "create", cur))]

\* Remote.prototype._handleMessage(message, server), on a Remote that has a
\* listener for 'error'.
HandleMessage(data) ==
  LET message == JsonParse(data)
      valid == IsValidMessage(message)
  IN /\ lastMsg' = Some([data |-> data,
                         threw |-> IF valid = "TypeError" THEN valid ELSE ""])
     /\ CASE valid = "TypeError" ->
               /\ emitted' = <<>>
               /\ UNCHANGED <<ledgerVars, txVars>>
         [] valid = "false" ->
               /\ emitted' = <<UnexpectedResponse>>
               /\ UNCHANGED <<ledgerVars, txVars>>
         [] valid = "true" /\ message.type.name = "ledgerClosed" ->
               /\ handleLedgerClosed(Val(message.ledger))
               /\ UNCHANGED txVars
         [] valid = "true" /\ message.type.name = "transaction" ->
               /\ handleTransaction(Val(message.tx))
               /\ Delivered(Val(message.tx))
               /\ UNCHANGED <<accountsReg, booksReg, txFresh, txAgain>>
               /\ UNCHANGED ledgerVars
         [] valid = "true" /\ message.type.name = "serverStatus" ->
               /\ emitted' = <<Ev("server_status", "")>>
               /\ UNCHANGED <<ledgerVars, txVars>>
         [] valid = "true" /\ message.type.name = "find_path" ->
               /\ handlePathFind
               /\ UNCHANGED <<ledgerVars, txVars>>
         [] OTHER ->
               /\ emitted' = <<>>
               /\ UNCHANGED <<ledgerVars, txVars>>
     /\ (~(valid = "true" /\ message.type.name = "find_path")) => UNCHANGED pathVars
     /\ UNCHANGED <<connVars, seqVars, reqVars, subVars, dialVars, storeVars, handVars>>

\* The Remote under payloads arriving from any server in any order.
NextMessage == \E data \in Payloads : HandleMessage(data)

SpecMessage == Init /\ [][NextMessage]_vars

\* A caller opens a path-find session.
CreatePathFind ==
  /\ path_finds < MaxPathFinds
  /\ Len(path_calls) + 2 <= MaxPathCalls
  /\ LET res == createPathFind(cur_path_find, path_finds, path_calls)
     IN /\ cur_path_find' = res.cur
        /\ path_finds' = res.made
        /\ path_calls' = res.calls
  /\ emitted' = <<>>
  /\ UNCHANGED lastMsg
  /\ UNCHANGED <<connVars, ledgerVars, txVars, seqVars, reqVars, subVars, dialVars, storeVars, handVars>>

\* The payloads of the find_path messages and of one other type.
PathPayloads ==
  {[json |-> TRUE, value |-> Value("object", StringType(t), Undefined, Undefined)]
     : t \in {"find_path", "serverStatus"}}

\* Path-find sessions opened while find_path messages arrive.
NextPath ==
  \/ CreatePathFind
  \/ \E data \in PathPayloads : HandleMessage(data)

SpecPath == Init /\ [][NextPath]_vars

\* ------------------------------------------------------------------ claims

\* C1: after every connect or disconnect handler, whatever the sequence of
\* events, the Remote is 'online' exactly when its connection count is > 0.
C1_OnlineIffCountPositive == (state = "online") <=> (connection_count > 0)

\* A second server's connect event has been handled while the Remote was online.
C1_Witness == state = "online" /\ connection_count = 2 /\ emitted = <<>>

IsStateEvent(e) == e.name \in {"state", "connect", "connected", "disconnect", "disconnected"}

\* The events one change of state is to emit, in order.
TransitionEvents(st) ==
  IF st = "online"
  THEN <<Ev("state", "online"), Ev("connect", ""), Ev("connected", "")>>
  ELSE <<Ev("state", "offline"), Ev("disconnect", ""), Ev("disconnected", "")>>

\* C2: a handler that changes the state emits one 'state' event followed by
\* the pair of the new state, and a handler that leaves the state emits none
\* of them; the state goes online exactly when the count goes 0 -> 1 and
\* offline exactly when it goes 1 -> 0; _setState called with the state the
\* Remote is in emits nothing and changes nothing.
C2_Step ==
  /\ (state' # state) => SelectSeq(emitted', IsStateEvent) = TransitionEvents(state')
  /\ (state' = state) => SelectSeq(emitted', IsStateEvent) = <<>>
  /\ (state = "offline" /\ state' = "online")
       <=> (connection_count = 0 /\ connection_count' = 1)
  /\ (state = "online" /\ state' = "offline")
       <=> (connection_count = 1 /\ connection_count' = 0)
  /\ SetState(state).emits = <<>>
  /\ SetState(state).state = state
  /\ SetState(state).connected = connected

C2_Transitions == [][C2_Step]_vars

\* The last server's disconnect has just taken the Remote offline.
C2_Witness ==
  /\ state = "offline"
  /\ connection_count = 0
  /\ emitted = <<Ev("state", "offline"), Ev("disconnect", ""), Ev("disconnected", "")>>

\* C3: the connection count is the number of registered servers whose
\* connected flag is set (so it is within 0..number of servers).
C3_CountIsConnectedServers ==
  /\ connection_count = Cardinality({i \in 1..Len(servers) : servers[i].connected})
  /\ connection_count >= 0
  /\ connection_count <= Len(servers)

\* Two of three servers are connected after one of them dropped.
C3_Witness ==
  /\ Len(servers) = 3
  /\ connection_count = 2
  /\ ~servers[2].connected
  /\ emitted = <<>>

\* C4: the tracked ledger index never decreases, whatever ledgerClosed
\* messages and subscribe acknowledgments arrive and in whatever order.
C4_LedgerIndexNeverDecreases ==
  [][(IsDef(ledger_current_index) /\ IsDef(ledger_current_index'))
       => Val(ledger_current_index') >= Val(ledger_current_index)]_vars

\* A valid ledgerClosed message for ledger n.
LedgerClosedInput(n) ==
  [kind |-> "ledgerClosed",
   msg |-> [ledger_index |-> Some(n), ledger_hash |-> Some(HashOf(n)),
            ledger_time |-> Some(TimeOf(n)), othersTyped |-> TRUE]]

\* C5: a Remote fed valid ledgerClosed messages for ledgers 5, 7, 6, 8 (and
\* nothing else) has accepted exactly 5, 7 and 8 and tracks index 9.
C5_FeedFiveSevenSixEight ==
  (fed = <<LedgerClosedInput(5), LedgerClosedInput(7),
           LedgerClosedInput(6), LedgerClosedInput(8)>>)
    => (accepted = <<5, 7, 8>> /\ ledger_current_index = Some(9))

Min(a, b) == IF a < b THEN a ELSE b

\* C6: the cache never holds more than its 100 entries; after n distinct
\* validated hashes (n up to 150) it holds exactly the most recent
\* min(n, 100) of them; and a message delivered again with one of the evicted
\* hashes is processed as new: notify is called and the events are emitted.
C6_DedupCapacity ==
  /\ Len(received_tx) <= ReceivedTxMax
  /\ (txAgain = 0) =>
       received_tx = [i \in 1..Min(txFresh, ReceivedTxMax) |->
                        txFresh - Min(txFresh, ReceivedTxMax) + i]
  /\ (txAgain = 1 /\ Val(lastTx).hash <= txFresh - ReceivedTxMax) =>
       /\ emitted = <<Ev("transaction", Val(lastTx).hash),
                      Ev("transaction_all", Val(lastTx).hash)>>
       /\ ("a1" \in accountsReg) => notified = <<[kind |-> "account", key |-> "a1"]>>

\* After 150 validated hashes, hash 1 was delivered again and fanned out.
C6_Witness ==
  /\ txFresh = 150
  /\ txAgain = 1
  /\ Val(lastTx).hash = 1
  /\ notified = <<[kind |-> "account", key |-> "a1"]>>
  /\ emitted # <<>>
  /\ Len(received_tx) = 100

\* The accounts a transaction message concerns: those of its metadata, or
\* without metadata its source and destination.
ConcernedAccounts(msg) ==
  IF IsDef(msg.meta)
  THEN {Val(msg.meta).accounts[i] : i \in 1..Len(Val(msg.meta).accounts)}
  ELSE {DirectAccounts(msg)[i] : i \in 1..Len(DirectAccounts(msg))}

\* C7: a delivery of hash H is suppressed (no notify call, no event) when H
\* was delivered validated before; otherwise, however often H was delivered
\* not validated, it fans out to the registered accounts it concerns and
\* emits 'transaction'.
C7_SuppressedOnceValidated ==
  IsDef(lastTx) =>
    IF lastMarked
    THEN emitted = <<>> /\ notified = <<>>
    ELSE /\ \E i \in 1..Len(emitted) : emitted[i] = Ev("transaction", Val(lastTx).hash)
         /\ \A a \in ConcernedAccounts(Val(lastTx)) \cap accountsReg :
              \E i \in 1..Len(notified) : notified[i] = [kind |-> "account", key |-> a]

\* H was delivered twice not validated, then validated, and a further
\* delivery has just been suppressed.
C7_Witness ==
  /\ IsDef(lastTx)
  /\ lastMarked
  /\ SeenOf(Val(lastTx).hash).unvalidated = 2
  /\ accountsReg = Accounts
  /\ emitted = <<>>
  /\ notified = <<>>

\* C8: for every account, under every interleaving of accountSeqCache calls
\* with look-up completions, at most one sequence-refresh request is
\* outstanding; a call made while one is outstanding creates no request and
\* returns the outstanding one.
C8_SingleFlight ==
  /\ \A a \in Accounts : Cardinality(OutstandingFor(a)) <= 1
  /\ (lastOp.op = "refresh" /\ lastOp.inflight # {}) =>
       /\ lastOp.created = 0
       /\ lastOp.ret \in lastOp.inflight

C8_Witness ==
  /\ lastOp.op = "refresh"
  /\ lastOp.inflight # {}
  /\ requests[lastOp.ret].requested
  /\ ~requests[lastOp.ret].responded

\* C9: when a look-up succeeds after two accountSeqCache calls with callbacks
\* were made for its account while it was outstanding, exactly one look-up
\* was sent for the account and both callbacks are called, without error,
\* with the Sequence of the response.
C9_CoalescedCallers ==
  (lastOp.op = "success" /\ Len(lastOp.callers) = 2) =>
    /\ lastOp.lookups = 1
    /\ called = <<[cb |-> lastOp.callers[1], err |-> FALSE, seq |-> lastOp.seq],
                  [cb |-> lastOp.callers[2], err |-> FALSE, seq |-> lastOp.seq]>>

C9_Witness ==
  /\ lastOp.op = "success"
  /\ lastOp.callers = <<"cb1", "cb2">>
  /\ lastOp.lookups = 1
  /\ Len(called) = 2
  /\ called[1].seq = called[2].seq

\* C10: on an entry that stores a number, getAccountSequence with ADVANCE
\* returns the stored value and leaves it one higher, with REWIND returns the
\* stored value and leaves it one lower; three ADVANCE calls in a row on an
\* entry storing 10 return 10, 11, 12 and leave 13.
C10_AdvanceRewind ==
  /\ (lastOp.op = "get" /\ lastOp.known /\ IsNumber(lastOp.before)
        /\ lastOp.adv = Some("ADVANCE")) =>
       /\ ~lastOp.threw
       /\ lastOp.ret = lastOp.before
       /\ accounts[lastOp.account].seq = Some(Val(lastOp.before) + 1)
  /\ (lastOp.op = "get" /\ lastOp.known /\ IsNumber(lastOp.before)
        /\ lastOp.adv = Some("REWIND")) =>
       /\ ~lastOp.threw
       /\ lastOp.ret = lastOp.before
       /\ accounts[lastOp.account].seq = Some(Val(lastOp.before) - 1)
  /\ (Len(advRun.rets) = 3 /\ advRun.start = Some(10)) =>
       /\ advRun.rets = <<Some(10), Some(11), Some(12)>>
       /\ accounts[advRun.account].seq = Some(13)

C10_Witness ==
  /\ Len(advRun.rets) = 3
  /\ advRun.start = Some(10)
  /\ lastOp.op = "get"
  /\ lastOp.adv = Some("ADVANCE")
  /\ lastOp.ret = Some(12)

\* The Requests that were passed to Remote.request while the Remote was
\* offline and had a server.
SubmittedOffline ==
  {r \in 1..Len(submitted) : submitted[r].offlineAtSubmit /\ submitted[r].hadServers}

\* The Request was given to no server before the Remote came online, and to
\* exactly one server since, however often the Remote came online.
DispatchedOnceOnline(r) ==
  /\ submitted[r].onlines = 0 => submitted[r].dispatched = <<>>
  /\ submitted[r].onlines >= 1 => Len(submitted[r].dispatched) = 1

\* C11 (as stated): every Request submitted once while the Remote is offline
\* and has a server is not dispatched while offline, is dispatched exactly
\* once by the next transition to online, and is not dispatched again by
\* later transitions.
C11_DispatchedOnceOnline_AsStated ==
  \A r \in SubmittedOffline : DispatchedOnceOnline(r)

\* C11 (amended): the same, for every such Request whose server is not null;
\* a Request pinned to null gets the error 'Server does not exist' at the
\* transition and is dispatched to no server.
C11_DispatchedOnceOnline ==
  \A r \in SubmittedOffline :
    IF submitted[r].server # NullPin
    THEN DispatchedOnceOnline(r)
    ELSE /\ submitted[r].dispatched = <<>>
         /\ submitted[r].onlines >= 1 => submitted[r].errors = <<"Server does not exist">>

C11_Witness ==
  \E r \in SubmittedOffline :
    /\ submitted[r].server = NoPin
    /\ submitted[r].onlines = 2
    /\ Len(submitted[r].dispatched) = 1
    /\ state = "online"

\* The server with this id.
ServerOf(id) == servers[IndexOf(servers, id)]

PrimaryConnected == IsDef(primary_server) /\ ServerOf(Val(primary_server)).connected

\* C12: whenever a primary server is set and connected, getServer returns it,
\* whatever the scores and fee quotes of the servers are.
C12_PrimarySelected ==
  (lastCall.op = "getServer" /\ PrimaryConnected) =>
    /\ lastCall.threw = ""
    /\ lastCall.ret = primary_server

C12_Witness ==
  /\ lastCall.op = "getServer"
  /\ PrimaryConnected
  /\ lastCall.ret = primary_server
  /\ \E k \in 1..Len(servers) :
       /\ servers[k].connected
       /\ servers[k].id # Val(primary_server)
       /\ servers[k].score + servers[k].fee
            < ServerOf(Val(primary_server)).score + ServerOf(Val(primary_server)).fee

\* C13: when no primary server is set or the primary is not connected, and a
\* server is connected, getServer returns a connected server whose score +
\* fee is minimal among the connected servers; getServer never returns a
\* server that is not connected.
C13_LowestConnectedSelected ==
  /\ (lastCall.op = "getServer" /\ ~PrimaryConnected
        /\ \E k \in 1..Len(servers) : servers[k].connected) =>
       /\ lastCall.threw = ""
       /\ IsDef(lastCall.ret)
       /\ ServerOf(Val(lastCall.ret)).connected
       /\ \A k \in 1..Len(servers) :
            servers[k].connected =>
              ServerOf(Val(lastCall.ret)).score + ServerOf(Val(lastCall.ret)).fee
                <= servers[k].score + servers[k].fee
  /\ (lastCall.op = "getServer" /\ IsDef(lastCall.ret)) =>
       ServerOf(Val(lastCall.ret)).connected

C13_Witness ==
  /\ lastCall.op = "getServer"
  /\ ~PrimaryConnected
  /\ IsDef(lastCall.ret)
  /\ \E k \in 1..Len(servers) :
       /\ ~servers[k].connected
       /\ servers[k].score + servers[k].fee
            < ServerOf(Val(lastCall.ret)).score + ServerOf(Val(lastCall.ret)).fee
  /\ \E k \in 1..Len(servers) :
       /\ servers[k].connected
       /\ servers[k].score + servers[k].fee
            > ServerOf(Val(lastCall.ret)).score + ServerOf(Val(lastCall.ret)).fee

\* C14: when no registered server is connected, getServer returns no server
\* without throwing, and feeTx, feeTxUnit and reserve throw 'No connected
\* servers'.
C14_NoServerConnected ==
  (Len(servers) > 0 /\ \A k \in 1..Len(servers) : ~servers[k].connected) =>
    /\ lastCall.op = "getServer" => (lastCall.threw = "" /\ lastCall.ret = Undefined)
    /\ lastCall.op \in FeeQueries => lastCall.threw = "No connected servers"

\* C15: a Request passed to a Remote without servers gets the error 'No
\* servers available' at once, is neither queued nor dispatched then or
\* later, and the call leaves the Remote as it was.
C15_Step ==
  /\ (Len(submitted') = Len(submitted) + 1 /\ Len(servers) = 0) =>
       /\ submitted'[Len(submitted')].errors = <<"No servers available">>
       /\ submitted'[Len(submitted')].dispatched = <<>>
       /\ connect_listeners' = connect_listeners
       /\ UNCHANGED <<connVars, ledgerVars, txVars, subVars>>
       /\ emitted' = <<>>
  /\ \A r \in 1..Len(submitted) :
       ~submitted[r].hadServers =>
         /\ submitted'[r].dispatched = <<>>
         /\ submitted'[r].errors = <<"No servers available">>
         /\ \A k \in 1..Len(connect_listeners') : connect_listeners'[k] # r

C15_NoServersAvailable == [][C15_Step]_vars

C15_Witness ==
  \E r \in 1..Len(submitted) :
    /\ ~submitted[r].hadServers
    /\ submitted[r].errors = <<"No servers available">>
    /\ state = "online"

\* C16: a Request whose server is null, passed to the Remote while it is
\* online, gets the error 'Server does not exist' and is dispatched to no
\* server.
C16_ServerDoesNotExist ==
  \A r \in 1..Len(submitted) :
    (submitted[r].server = NullPin /\ ~submitted[r].offlineAtSubmit) =>
      /\ submitted[r].errors = <<"Server does not exist">>
      /\ submitted[r].dispatched = <<>>

C16_Witness ==
  /\ lastCall.op = "request"
  /\ submitted[lastCall.request].server = NullPin
  /\ ~submitted[lastCall.request].offlineAtSubmit
  /\ submitted[lastCall.request].errors = <<"Server does not exist">>

\* The payloads that are no JSON, that parse to something that is no object
\* or to null, or that have no string as type.
Malformed(data) ==
  \/ ~data.json
  \/ data.value.kind \notin {"object", "array"}
  \/ data.value.type.typeOf # "string"

\* C17: for every malformed payload the message handler emits the 'unexpected
\* response' error and returns without throwing, and leaves the ledger
\* tracker, the de-duplication cache and the connection state as they were.
C17_Step ==
  (IsDef(lastMsg') /\ Malformed(Val(lastMsg').data)) =>
    /\ Val(lastMsg').threw = ""
    /\ emitted' = <<UnexpectedResponse>>
    /\ UNCHANGED <<ledger_current_index, ledger_hash, ledger_time, received_tx, connVars>>

C17_MalformedRejected == [][C17_Step]_vars

\* The hashes in the de-duplication cache.
CachedHashes(cache) == {cache[i] : i \in 1..Len(cache)}

\* C18: a transaction message whose hash is in the de-duplication cache when
\* it arrives is dropped: no Account or OrderBook is notified, neither
\* 'transaction' nor 'transaction_all' is emitted, and the cache holds the
\* same hashes as before.
C18_Step ==
  (IsDef(lastTx') /\ Val(lastTx').hash \in CachedHashes(received_tx)) =>
    /\ notified' = <<>>
    /\ emitted' = <<>>
    /\ CachedHashes(received_tx') = CachedHashes(received_tx)

C18_CachedHashDiscarded == [][C18_Step]_vars

C18_Witness ==
  /\ IsDef(lastTx)
  /\ Val(lastTx).hash \in CachedHashes(received_tx)
  /\ lastMarked
  /\ IsDef(Val(lastTx).meta)
  /\ \E i \in 1..Len(Val(Val(lastTx).meta).accounts) :
       Val(Val(lastTx).meta).accounts[i] \in accountsReg
  /\ \E i \in 1..Len(Val(Val(lastTx).meta).books) :
       Val(Val(lastTx).meta).books[i] \in booksReg
  /\ notified = <<>>
  /\ emitted = <<>>

\* C19: a 'transaction_all' listener added while the count is 0 and the
\* Remote is online issues exactly one subscribe request; one removed while
\* the count is 1 and the Remote is online issues exactly one unsubscribe
\* request; every other addition or removal, and every one made while
\* offline, issues no request and only changes the count by one.
C19_SubscriptionCount ==
  /\ (lastCall.op = "on" /\ lastCall.type = "transaction_all") =>
       /\ lastCall.issued = IF lastCall.before = 0 /\ lastCall.online
                            THEN <<"subscribe">> ELSE <<>>
       /\ transaction_subs = lastCall.before + 1
  /\ (lastCall.op = "removeListener" /\ lastCall.type = "transaction_all") =>
       /\ lastCall.issued = IF lastCall.before = 1 /\ lastCall.online
                            THEN <<"unsubscribe">> ELSE <<>>
       /\ transaction_subs = lastCall.before - 1
  /\ (lastCall.op \in {"on", "removeListener"} /\ lastCall.type # "transaction_all") =>
       /\ lastCall.issued = <<>>
       /\ transaction_subs = lastCall.before

C19_Witness ==
  /\ lastCall.op = "removeListener"
  /\ lastCall.type = "transaction_all"
  /\ lastCall.before = 1
  /\ lastCall.online
  /\ lastCall.issued = <<"unsubscribe">>
  /\ \E r \in 1..Len(submitted) :
       submitted[r].command = "subscribe" /\ Len(submitted[r].dispatched) = 1

\* C20: a ledger notice in a subscribe response whose ledger index is below
\* the tracked index is rejected as a ledgerClosed message would be: the
\* tracked index, hash and time stay as they were and no ledger_closed event
\* is emitted.
C20_Step ==
  (/\ Len(fed') = Len(fed) + 1
   /\ fed'[Len(fed')].kind = "subscribed"
   /\ IsDef(fed'[Len(fed')].msg.ledger_hash)
   /\ TruthyNumber(fed'[Len(fed')].msg.ledger_index)
   /\ IsDef(ledger_current_index)
   /\ ~GreaterEq(Val(fed'[Len(fed')].msg.ledger_index), ledger_current_index)) =>
    /\ UNCHANGED <<ledger_current_index, ledger_hash, ledger_time>>
    /\ \A k \in 1..Len(emitted') : emitted'[k].name # "ledger_closed"

C20_AckAcceptanceRule == [][C20_Step]_vars

\* The Requests for account a whose accountRootSuccess or accountRootError
\* has run.
CompletedFor(a) ==
  {q \in 1..Len(requests) : requests[q].account = a /\ ~Outstanding(requests[q])}

C22_CurrentLedgerCache ==
  /\ (lastOp.op = "refresh" /\ IsDef(lastOp.cb) /\ lastOp.created = 1 /\ lastOp.cached) =>
       /\ ~requests[lastOp.ret].requested
       /\ ~requests[lastOp.ret].onSuccess
  /\ (lastOp.op = "refresh" /\ IsDef(lastOp.cb) /\ lastOp.created = 1 /\ ~lastOp.cached) =>
       requests[lastOp.ret].requested
  /\ lastOp.op = "success" =>
       /\ lastOp.account \in DOMAIN account_root
       /\ account_root[lastOp.account] = lastOp.seq

\* C23: of two Requests submitted while the Remote was offline, the one
\* submitted first is dispatched first when the Remote comes online.
C23_ReplayedInOrder ==
  \A r1 \in SubmittedOffline, r2 \in SubmittedOffline :
    (r1 < r2 /\ submitted[r1].order # <<>> /\ submitted[r2].order # <<>>) =>
      submitted[r1].order[1] < submitted[r2].order[1]

C23_Witness ==
  \E r1 \in SubmittedOffline, r2 \in SubmittedOffline :
    /\ r1 < r2
    /\ submitted[r1].onlines = 1
    /\ submitted[r2].onlines = 1
    /\ submitted[r1].order = <<1>>
    /\ submitted[r2].order = <<2>>

\* The step handles the ledgerClosed message msg.
HandlesLedgerClosed(msg) ==
  /\ Len(fed') = Len(fed) + 1
  /\ fed'[Len(fed')] = [kind |-> "ledgerClosed", msg |-> msg]

\* The step accepts msg if ok, and else leaves the tracker alone and emits no
\* ledger_closed event.
AcceptsIff(msg, ok) ==
  IF ok
  THEN /\ ledger_time' = msg.ledger_time
       /\ ledger_hash' = msg.ledger_hash
       /\ ledger_current_index' = Some(Val(msg.ledger_index) + 1)
       /\ emitted' = <<Ev("ledger_closed", Val(msg.ledger_index))>>
  ELSE /\ UNCHANGED <<ledger_time, ledger_hash, ledger_current_index>>
       /\ \A k \in 1..Len(emitted') : emitted'[k].name # "ledger_closed"

\* C24: a ledgerClosed message is accepted if and only if it has the required
\* fields and its index is greater than or equal to the tracked index (which
\* no index is while the Remote tracks none); on acceptance time and hash are
\* the message's, the tracked index is the message's + 1 and one
\* ledger_closed event is emitted; otherwise the tracker is unchanged and no
\* ledger_closed event is emitted.
C24_Step ==
  \A msg \in LedgerClosedMessages :
    HandlesLedgerClosed(msg) =>
      AcceptsIff(msg, /\ IsValidLedgerData(msg)
                      /\ IsDef(ledger_current_index)
                      /\ Val(msg.ledger_index) >= Val(ledger_current_index))

NotifiedSet == {notified[i] : i \in 1..Len(notified)}

\* The members of the sequence keys.
Members(keys) == {keys[i] : i \in 1..Len(keys)}

\* C25: for a transaction message that is not suppressed, notify is called,
\* with metadata, on exactly the registered Accounts of the affected accounts
\* and the registered OrderBooks of the affected books, and without metadata
\* on exactly the registered Accounts keyed by the transaction's Account and
\* Destination and on no OrderBook.
C25_NotifyFanOut ==
  (IsDef(lastTx) /\ ~lastMarked) =>
    LET msg == Val(lastTx)
    IN NotifiedSet =
         IF IsDef(msg.meta)
         THEN {[kind |-> "account", key |-> a] :
                  a \in Members(Val(msg.meta).accounts) \cap accountsReg}
              \cup {[kind |-> "book", key |-> b] :
                  b \in Members(Val(msg.meta).books) \cap booksReg}
         ELSE {[kind |-> "account", key |-> a] :
                  a \in Members(DirectAccounts(msg)) \cap accountsReg}

\* A message whose metadata names a1, a2 and b1 has reached the Account of a1
\* and the OrderBook of b1, a2 being unregistered although it is the
\* transaction's Destination.
C25_Witness ==
  /\ IsDef(lastTx)
  /\ ~lastMarked
  /\ IsDef(Val(lastTx).meta)
  /\ Val(Val(lastTx).meta).accounts = <<"a1", "a2">>
  /\ Val(lastTx).Destination = Some("a2")
  /\ accountsReg = {"a1"}
  /\ booksReg = {"b1"}
  /\ notified = <<[kind |-> "account", key |-> "a1"], [kind |-> "book", key |-> "b1"]>>

\* The feeds of the request req.
Feeds(req) == {req.streams[i] : i \in 1..Len(req.streams)}

\* C26: every prepared subscribe request contains the 'ledger' and 'server'
\* feeds, and contains the 'transactions' feed if and only if the count of
\* transaction subscribers is greater than 0 when the request is prepared.
C26_PreparedFeeds ==
  lastCall.op = "prepare" =>
    /\ {"ledger", "server"} \subseteq Feeds(lastCall.request)
    /\ "transactions" \in Feeds(lastCall.request) <=> lastCall.before > 0

\* A request prepared with subscribers has the three feeds.
C26_Witness ==
  /\ lastCall.op = "prepare"
  /\ lastCall.before > 0
  /\ Feeds(lastCall.request) = {"ledger", "server", "transactions"}

\* getAccountSequence on an account with no entry returns undefined and makes
\* no entry.
UnknownLeftAlone ==
  (lastOp.op = "get" /\ ~lastOp.known) =>
    /\ ~lastOp.threw
    /\ lastOp.ret = Undefined
    /\ JsonRewrite(lastOp.account) \notin DOMAIN accounts

\* setAccountSeq(account, n) leaves n stored.
SetOverwrites ==
  lastOp.op = "set" => accounts[lastOp.account].seq = Some(lastOp.seq)

\* C27: getAccountSequence on an account with no entry returns no sequence
\* and creates no entry; with the advance argument absent it returns the
\* stored sequence and leaves it unchanged; setAccountSeq(account, n)
\* overwrites the stored value, so that the next getAccountSequence returns n.
C27_GetAndSet ==
  /\ UnknownLeftAlone
  /\ SetOverwrites
  /\ (lastOp.op = "get" /\ lastOp.known /\ ~IsDef(lastOp.adv)) =>
       /\ ~lastOp.threw
       /\ lastOp.ret = lastOp.before
       /\ accounts[JsonRewrite(lastOp.account)].seq = lastOp.before

\* The account-root cache after the step is the one before without the
\* snapshot of account a.
RemovedOnly(a) ==
  /\ DOMAIN account_root' = DOMAIN account_root \ {a}
  /\ \A b \in DOMAIN account_root' : account_root'[b] = account_root[b]

\* The account-root cache after the step is the one before with the snapshot
\* v stored for account a.
StoredOnly(a, v) ==
  /\ DOMAIN account_root' = DOMAIN account_root \cup {a}
  /\ account_root'[a] = v
  /\ \A b \in DOMAIN account_root \ {a} : account_root'[b] = account_root[b]

\* C28: dirtyAccountRoot(account) removes exactly that account's snapshot
\* from the current-ledger cache and leaves the others; everything else
\* leaves the cache as it is, except a successful account_root fetch, which
\* stores the fetched snapshot; a step that changes the tracked ledger leaves
\* the cache as it is.
C28_Step ==
  /\ (lastOp'.op = "dirty" /\ lastOp' # lastOp) =>
       RemovedOnly(JsonRewrite(lastOp'.account))
  /\ account_root' # account_root =>
       \/ lastOp'.op = "dirty" /\ RemovedOnly(JsonRewrite(lastOp'.account))
       \/ lastOp'.op = "success" /\ StoredOnly(lastOp'.account, lastOp'.seq)
  /\ ledger_hash' # ledger_hash => account_root' = account_root

LastPathCall == path_calls[Len(path_calls)]

\* C29: one PathFind at most is installed, and it is the one made last;
\* createPathFind, when one is installed, first tells it that it is
\* superseded, while it is still installed, and then installs the new one; a
\* find_path message is then forwarded to the installed one and to no other.
C29_Step ==
  /\ path_finds' = path_finds + 1 =>
       /\ cur_path_find' = Some(path_finds')
       /\ path_calls' =
            (IF IsDef(cur_path_find)
             THEN Append(path_calls,
                         PathCall(Val(cur_path_find), "notify_superceded", cur_path_find))
             ELSE path_calls)
              \o <<PathCall(path_finds', "create", cur_path_find)>>
  /\ (path_finds' = path_finds /\ path_calls' # path_calls) =>
       /\ IsDef(cur_path_find)
       /\ cur_path_find = Some(path_finds)
       /\ cur_path_find' = cur_path_find
       /\ path_calls' = Append(path_calls,
                               PathCall(path_finds, "notify_update", cur_path_find))

C29_SingleActivePathFind == [][C29_Step]_vars

\* Two sessions were opened, the first was told it is superseded, and a
\* find_path message has since reached the second.
C29_Witness ==
  /\ path_finds = 2
  /\ cur_path_find = Some(2)
  /\ Len(path_calls) >= 3
  /\ LastPathCall = PathCall(2, "notify_update", Some(2))
  /\ \E i \in 1..Len(path_calls) : path_calls[i] = PathCall(1, "notify_superceded", Some(1))
  /\ \E i \in 1..Len(path_calls) : path_calls[i] = PathCall(1, "notify_update", Some(1))

\* C30: the pool holds exactly the servers that were added, each once, and
\* connect() visits them in the order they were added.
C30_RegistrationOrder ==
  /\ {servers[i].id : i \in 1..Len(servers)} = 1..Len(servers)
  /\ \A k \in 1..Len(visited) : visited[k] = k

\* The transactions among the entries of batch, in order.
WellFormed(batch) ==
  LET txs == SelectSeq(batch, LAMBDA e : e.typeOf = "object" /\ ~e.null)
  IN [k \in 1..Len(txs) |-> txs[k].id]

\* The storage is asked once, at the first 'connect', however often the
\* Remote goes online and offline.
QueriedOnce ==
  /\ store_queries <= 1
  /\ store_queries = 1 <=> ~store_hook

\* C31: the storage is asked for the pending transactions at the first
\* 'connect' only, once over any sequence of transitions, and of the batch it
\* answers with every well-formed entry is submitted again once, a malformed
\* entry being passed over without an end to the batch.
C31_PendingResubmitted ==
  /\ QueriedOnce
  /\ (IsDef(lastBatch) /\ ~Val(lastBatch).err) =>
       /\ Val(lastBatch).threw = ""
       /\ resubmitted = WellFormed(Val(lastBatch).batch)

\* The commands and the request builder remote.js defines for each.
Builders ==
  {[command |-> "ping", fn |-> "requestPing"],
   [command |-> "subscribe", fn |-> "requestSubscribe"],
   [command |-> "ledger", fn |-> "requestLedger"]}

\* The command a name stands for: the name without 'request_'.
CommandOf(name) == IF HasRequestPrefix(name) THEN SubSeq(name, 3, Len(name)) ELSE name

C33_DisconnectGoesOffline ==
  (lastCall.op = "disconnect" /\ Len(servers) > 0) =>
    /\ {lastCall.called[k] : k \in 1..Len(lastCall.called)} = 1..Len(servers)
    /\ lastCall.threw = ""
    /\ state = "offline"
    /\ lastCall.wasOnline =>
         Cardinality({k \in 1..Len(emitted) : emitted[k].name = "disconnect"}) = 1

\* C34: for one account, whatever refreshes are made and complete between
\* them, no two getAccountSequence(account, 'ADVANCE') calls return the same
\* number.
C34_NoSequenceTwice ==
  \A a \in DOMAIN handed :
    \A i, j \in 1..Len(handed[a]) : i # j => handed[a][i] # handed[a][j]

\* C35: for every ledger index N at most one ledger_closed event is emitted
\* for N, however many ledgerClosed messages and subscribe responses for N
\* the servers deliver and in whatever order.
C35_OneEventPerLedger ==
  \A i, j \in 1..Len(accepted) : i # j => accepted[i] # accepted[j]

\* C36: every server a Request is dispatched to is connected when the Request
\* is handed to it, whether getServer chose it or the Request names it.
C36_DispatchedToConnected ==
  \A r \in 1..Len(submitted) :
    \A k \in 1..Len(submitted[r].live) : submitted[r].live[k]

\* C37: one transaction message that is not suppressed has notify called at
\* most once on each registered Account, also when the transaction's Account
\* and Destination are the same account.
C37_NotifiedAtMostOnce ==
  (IsDef(lastTx) /\ ~lastMarked) =>
    \A a \in accountsReg :
      Cardinality({i \in 1..Len(notified) :
                     notified[i] = [kind |-> "account", key |-> a]}) <= 1

\* C38: getAccountSequence on an entry whose sequence is not known yet (the
\* entry a refresh made that has not completed) returns no sequence and
\* leaves the stored sequence unknown, whatever advance is; a stored sequence
\* is always unknown or a number.
C38_UnknownStaysUnknown ==
  /\ (lastOp.op = "get" /\ lastOp.known /\ ~IsDef(lastOp.before) /\ IsDef(lastOp.adv)) =>
       /\ lastOp.ret = Undefined
       /\ accounts[JsonRewrite(lastOp.account)].seq = Undefined
  /\ \A a \in DOMAIN accounts : ~IsDef(accounts[a].seq) \/ IsNumber(accounts[a].seq)

\* The servers that carry the primary flag.
Flagged == {k \in 1..Len(servers) : servers[k].primary}

\* The server with this id has just connected.
JustConnected(id) ==
  /\ \E k \in 1..Len(servers) : servers[k].id = id /\ ~servers[k].connected
  /\ \E k \in 1..Len(servers') : servers'[k].id = id /\ servers'[k].connected

\* C39: at most one server carries the primary flag, and a server that carries
\* it is the Remote's primary server; a server configured primary that
\* connects becomes the primary server, so the flag of the previous one is
\* cleared.
C39_SinglePrimary ==
  /\ [](/\ Cardinality(Flagged) <= 1
        /\ \A k \in Flagged : primary_server = Some(servers[k].id))
  /\ [][\A k \in 1..Len(servers) :
          (servers[k].optsPrimary /\ JustConnected(servers[k].id)) =>
            /\ primary_server' = Some(servers[k].id)
            /\ \A j \in 1..Len(servers') :
                 servers'[j].primary <=> servers'[j].id = servers[k].id]_vars

\* Two servers configured primary have both connected, and the flag is on the
\* one that is now the primary server and no longer on the other.
C39_Witness ==
  \E k, j \in 1..Len(servers) :
    /\ k # j
    /\ servers[k].optsPrimary /\ servers[j].optsPrimary
    /\ servers[k].connected /\ servers[j].connected
    /\ servers[j].primary /\ ~servers[k].primary
    /\ primary_server = Some(servers[j].id)

====
